---- MODULE Spec2Model ----
(***************************************************************************)
(* Weekly time-tracking grid (rmarionnet/task-layout).                     *)
(*                                                                         *)
(* The store is the React state `tasks` of Index (src/src/types.ts); it is *)
(* changed only by upsertTask and deleteTask.  upsertTask validates the    *)
(* candidate against the task list captured by the closure of the render   *)
(* that created it, and applies the change with a functional updater to    *)
(* the state current at that moment.  The grid (src/unnamed/part_001)      *)
(* calls it from the edit form, from the release of a drag and from the    *)
(* paste key.                                                              *)
(*                                                                         *)
(* Times of day are counted in minutes (startHour 7.5 is 450), so that a   *)
(* time that is not on a half hour can be written.                         *)
(***************************************************************************)
EXTENDS Integers, Sequences, FiniteSets, TLC

VARIABLES
    tasks,          \* Index: const [tasks, setTasks] = useState<Task[]>([])
    gesture,        \* closure of the gesture started by onMouseDown
    hoverTarget,    \* WeeklyGrid: useState hoverTarget
    hoveredTaskId,  \* WeeklyGrid: useState hoveredTaskId
    copiedTask,     \* WeeklyGrid: useState copiedTask
    modal,          \* WeeklyGrid: modalOpen / modalMode / editingTask
    nextId,         \* the ids minted so far are 1..nextId-1
    file,           \* CSVImport: the file chosen in the file input
    listeners,      \* window: the attached pairs of mousemove/mouseup listeners
    storage,        \* localStorage: the item 'tt.tasks', None when missing
    last            \* history: the last call of onUpsert and what it returned

vars == <<tasks, gesture, hoverTarget, hoveredTaskId, copiedTask, modal, nextId,
          file, listeners, storage, last>>

----------------------------------------------------------------------------
(* Program constants *)

START_HOUR == 7
END_HOUR == 20
HOUR_H == 60
SLOT_H == HOUR_H \div 2
DragThreshold == 3
LastDayIdx == 5

\* a number of hours as a time of day in minutes
Hours(h) == h * 60

HalfHour == Hours(1) \div 2

----------------------------------------------------------------------------
(* Bounds of the model *)

\* the number of ids that the form and the paste key may mint
MaxId == 2
\* the pairs of window listeners that the model lets be attached at once
MaxListeners == 2

----------------------------------------------------------------------------
(* Task values *)

\* an optional field: <<>> is undefined, <<v>> is the value v
None == <<>>
Some(v) == <<v>>

Task(id, dateISO, startHour, endHour, category, client, type, billed) ==
    [id |-> id, dateISO |-> dateISO, startHour |-> startHour, endHour |-> endHour,
     category |-> category, client |-> client, project |-> None, quote |-> None,
     type |-> type, description |-> None, billed |-> billed]

RangeOf(s) == {s[i] : i \in 1..Len(s)}

IdsOf(list) == {list[i].id : i \in 1..Len(list)}

----------------------------------------------------------------------------
(* Index: the store *)

\* overlaps with the bounds compared by <=: touching intervals collide
overlaps_Closed(a, b) ==
    /\ a.dateISO = b.dateISO
    /\ a.startHour <= b.endHour
    /\ b.startHour <= a.endHour
    /\ a.id # b.id

\* overlaps without the comparison of ids: a task collides with itself
overlaps_ByValue(a, b) ==
    /\ a.dateISO = b.dateISO
    /\ a.startHour < b.endHour
    /\ b.startHour < a.endHour

\* function overlaps(a, b)
overlaps(a, b) ==
    /\ a.dateISO = b.dateISO
    /\ a.startHour < b.endHour
    /\ b.startHour < a.endHour
    /\ a.id # b.id

\* the updater without the test for an existing id: always appends
upsertApply_Append(prev, task) == Append(prev, task)

\* the updater given to setTasks by upsertTask, applied to the state prev
upsertApply(prev, task) ==
    LET exists == \E i \in 1..Len(prev) : prev[i].id = task.id
    IN  IF exists
        THEN [i \in 1..Len(prev) |-> IF prev[i].id = task.id THEN task ELSE prev[i]]
        ELSE Append(prev, task)

\* upsertTask that reports a conflict after having stored the candidate
upsertTask_StoresOnConflict(closureTasks, prev, task) ==
    IF task.startHour < Hours(START_HOUR) \/ task.endHour > Hours(END_HOUR)
    THEN [ok |-> FALSE, error |-> "range", next |-> prev]
    ELSE IF \E i \in 1..Len(closureTasks) : overlaps(task, closureTasks[i])
    THEN [ok |-> FALSE, error |-> "overlap", next |-> upsertApply(prev, task)]
    ELSE [ok |-> TRUE, error |-> "none", next |-> upsertApply(prev, task)]

\* upsertTask of the render whose task list is closureTasks, called while the
\* state is prev: the value returned and the state after the call
upsertTask(closureTasks, prev, task) ==
    IF task.startHour < Hours(START_HOUR) \/ task.endHour > Hours(END_HOUR)
    THEN [ok |-> FALSE, error |-> "range", next |-> prev]
    ELSE IF \E i \in 1..Len(closureTasks) : overlaps(task, closureTasks[i])
    THEN [ok |-> FALSE, error |-> "overlap", next |-> prev]
    ELSE [ok |-> TRUE, error |-> "none", next |-> upsertApply(prev, task)]

\* the updater that drops the last task, whatever its id
deleteApply_Pop(prev, id) ==
    IF prev = <<>> THEN prev ELSE SubSeq(prev, 1, Len(prev) - 1)

\* the updater given to setTasks by deleteTask
deleteApply(prev, id) == SelectSeq(prev, LAMBDA t : t.id # id)

----------------------------------------------------------------------------
(* History of the last store call *)

NoCall == [op |-> "none"]
\* the stored task with this id, if any
Find(list, id) ==
    IF \E i \in 1..Len(list) : list[i].id = id
    THEN Some(list[CHOOSE i \in 1..Len(list) :
                     list[i].id = id /\ \A j \in 1..(i - 1) : list[j].id # id])
    ELSE None

\* what the caller does with a rejection: the form shows res.error in the
\* dialog (setError), the paste key shows it in a toast, the releases of a
\* drag and of a resize have an empty block for it, a direct call nothing
ErrorShown(by, res) ==
    CASE by = "save" -> ~res.ok
      [] by = "paste" -> ~res.ok
      [] by \in {"drag", "top", "bottom"} -> FALSE
      [] OTHER -> FALSE

\* by: the handler that called; old: the stored task of that id before the
\* call; shown: the caller has shown an error message
UpsertCall(by, task, res, prev) ==
    [op |-> "upsert", by |-> by, task |-> task, ok |-> res.ok, error |-> res.error,
     old |-> Find(prev, task.id), shown |-> ErrorShown(by, res)]
DeleteCall(id, prev) == [op |-> "delete", id |-> id, old |-> Find(prev, id)]

\* a release that was a click: openEdit was called, onUpsert was not
ClickCall(id, dx, dy) == [op |-> "click", id |-> id, dx |-> dx, dy |-> dy]

NoGesture == [kind |-> "none"]
Closed == [open |-> FALSE]

Init ==
    /\ tasks = <<>>
    /\ gesture = NoGesture
    /\ hoverTarget = None
    /\ hoveredTaskId = None
    /\ copiedTask = None
    /\ modal = Closed
    /\ nextId = 1
    /\ file = None
    /\ listeners = 0
    /\ storage = None
    /\ last = NoCall

----------------------------------------------------------------------------
(* WeeklyGrid and TaskModal: the handlers that reach the store.            *)
(* dateISO is the index of the day in the displayed week (0 is Monday).    *)

MinGridWidth == 900
HoursColWidth == 120
\* width of a day column: the grid is 120px + six equal columns
colWidth == (MinGridWidth - HoursColWidth) \div 6

Max(a, b) == IF a > b THEN a ELSE b
Min(a, b) == IF a < b THEN a ELSE b

\* Math.round(n / d) for d > 0: halves go up
Round(n, d) == (2 * n + d) \div (2 * d)

Abs(n) == IF n < 0 THEN -n ELSE n

\* inputs of the form: what the user has entered when pressing Enregistrer
Form(dateISO, startHour, category, client, type) ==
    [dateISO |-> dateISO, startHour |-> startHour, duration |-> Hours(1),
     fields |-> [category |-> category, client |-> client, type |-> type]]

Forms ==
    {Form(0, st, "FACTURABLE", "Acme", "") : st \in {Hours(18), Hours(18) + 30, Hours(19)}}
    \cup { Form(1, Hours(18) + 30, "NON_FACTURABLE", "", "Admin"),
           Form(0, Hours(19) + 30, "FACTURABLE", "Acme", ""),
           Form(0, Hours(18), "FACTURABLE", "", "") }

\* inputs of the pointer: displacements of a drag since the mouse-down, and
\* positions over a day column
DragMoves == { <<0, 0>>, <<0, SLOT_H>> }
HoverDays == {0}
HoverYs == {12 * HOUR_H, 12 * HOUR_H + SLOT_H}

\* s.trim() || undefined, on strings without blanks
OrUndefined(str) == IF str = "" THEN None ELSE Some(str)

\* openCreate
OpenCreate ==
    /\ ~modal.open
    /\ gesture = NoGesture
    /\ modal' = [open |-> TRUE, mode |-> "create", existingTask |-> None]
    /\ last' = NoCall
    /\ UNCHANGED <<file, listeners, storage, tasks, gesture, hoverTarget, hoveredTaskId, copiedTask, nextId>>

\* Dialog onOpenChange / Annuler: onClose
CloseModal ==
    /\ modal.open
    /\ modal' = Closed
    /\ last' = NoCall
    /\ UNCHANGED <<file, listeners, storage, tasks, gesture, hoverTarget, hoveredTaskId, copiedTask, nextId>>

\* TaskModal.handleSave with the form filled as f
handleSave(f) ==
    LET endHour == f.startHour + f.duration
        isEdit == modal.existingTask # None
        id == IF isEdit THEN modal.existingTask[1].id ELSE nextId
        billable == f.fields.category = "FACTURABLE"
        task == Task(id, f.dateISO, f.startHour, endHour, f.fields.category,
                     IF billable THEN OrUndefined(f.fields.client) ELSE None,
                     IF billable THEN None ELSE OrUndefined(f.fields.type),
                     IF billable THEN Some(FALSE) ELSE None)
        res == upsertTask(tasks, tasks, task)
        formError ==
            \/ billable /\ f.fields.client = ""
            \/ ~billable /\ f.fields.type = ""
            \/ endHour > Hours(END_HOUR)
    IN  /\ modal.open
        /\ isEdit \/ nextId <= MaxId
        /\ IF formError
           THEN /\ last' = NoCall
                /\ UNCHANGED <<tasks, modal, nextId>>
           ELSE /\ tasks' = res.next
                /\ last' = UpsertCall("save", task, res, tasks)
                /\ modal' = IF res.ok THEN Closed ELSE modal
                /\ nextId' = IF isEdit THEN nextId ELSE nextId + 1
        /\ UNCHANGED <<file, listeners, storage, gesture, hoverTarget, hoveredTaskId, copiedTask>>

\* TaskModal: the Supprimer button, onDelete(existingTask.id)
handleDelete ==
    /\ modal.open
    /\ modal.existingTask # None
    /\ tasks' = deleteApply(tasks, modal.existingTask[1].id)
    /\ last' = DeleteCall(modal.existingTask[1].id, tasks)
    /\ UNCHANGED <<file, listeners, storage, gesture, hoverTarget, hoveredTaskId, copiedTask, modal, nextId>>

\* onMouseDown on the card of tasks[i]: the closure keeps the task, the
\* task list and onUpsert of the render that drew the card.  The pointer
\* is on the card, so the card's onMouseEnter has set hoveredTaskId
onMouseDown(i) ==
    /\ ~modal.open
    /\ gesture = NoGesture
    /\ i \in 1..Len(tasks)
    /\ hoveredTaskId = Some(tasks[i].id)
    /\ listeners < MaxListeners
    /\ gesture' = [kind |-> "drag", t |-> tasks[i], tasks |-> tasks,
                   dx |-> 0, dy |-> 0, moved |-> FALSE]
    /\ listeners' = listeners + 1
    /\ last' = NoCall
    /\ UNCHANGED <<file, storage, tasks, hoverTarget, hoveredTaskId, copiedTask, modal, nextId>>

\* handleMove that decides moved from the current displacement alone
dragMove_Unlatched(dx, dy) ==
    /\ gesture.kind = "drag"
    /\ gesture' = [gesture EXCEPT !.dx = dx, !.dy = dy,
                     !.moved = Abs(dx) > DragThreshold \/ Abs(dy) > DragThreshold]
    /\ last' = NoCall
    /\ UNCHANGED <<file, listeners, storage, tasks, hoverTarget, hoveredTaskId, copiedTask, modal, nextId>>

\* handleMove that takes a displacement of 3 pixels for a move
dragMove_AtThree(dx, dy) ==
    /\ gesture.kind = "drag"
    /\ gesture' = [gesture EXCEPT !.dx = dx, !.dy = dy,
                     !.moved = @ \/ Abs(dx) >= DragThreshold \/ Abs(dy) >= DragThreshold]
    /\ last' = NoCall
    /\ UNCHANGED <<file, listeners, storage, tasks, hoverTarget, hoveredTaskId, copiedTask, modal, nextId>>

\* onMouseDown.handleMove
dragMove(dx, dy) ==
    /\ gesture.kind = "drag"
    /\ gesture' = [gesture EXCEPT !.dx = dx, !.dy = dy,
                     !.moved = @ \/ Abs(dx) > DragThreshold \/ Abs(dy) > DragThreshold]
    /\ last' = NoCall
    /\ UNCHANGED <<file, listeners, storage, tasks, hoverTarget, hoveredTaskId, copiedTask, modal, nextId>>

\* the candidate of a drag built without the client of the task
dragCandidate_LosesClient(t, dx, dy) ==
    LET durationH == t.endHour - t.startHour
        shiftDays == Round(dx, colWidth)
        newDayIdx == Min(LastDayIdx, Max(0, t.dateISO + shiftDays))
        shiftSlots == Round(dy, SLOT_H)
        newStart == Min(Hours(END_HOUR) - durationH,
                        Max(Hours(START_HOUR), t.startHour + shiftSlots * HalfHour))
    IN  [t EXCEPT !.dateISO = newDayIdx, !.startHour = newStart,
                  !.endHour = newStart + durationH, !.client = None]

\* the candidate of a drag without the clamp of the start
dragCandidate_NoClamp(t, dx, dy) ==
    LET durationH == t.endHour - t.startHour
        shiftDays == Round(dx, colWidth)
        newDayIdx == Min(LastDayIdx, Max(0, t.dateISO + shiftDays))
        shiftSlots == Round(dy, SLOT_H)
        newStart == t.startHour + shiftSlots * HalfHour
    IN  [t EXCEPT !.dateISO = newDayIdx, !.startHour = newStart,
                  !.endHour = newStart + durationH]

\* the candidate of a drag without the clamp of the day
dragCandidate_NoDayClamp(t, dx, dy) ==
    LET durationH == t.endHour - t.startHour
        shiftDays == Round(dx, colWidth)
        newDayIdx == t.dateISO + shiftDays
        shiftSlots == Round(dy, SLOT_H)
        newStart == Min(Hours(END_HOUR) - durationH,
                        Max(Hours(START_HOUR), t.startHour + shiftSlots * HalfHour))
    IN  [t EXCEPT !.dateISO = newDayIdx, !.startHour = newStart,
                  !.endHour = newStart + durationH]

\* the candidate of a drag with the slots rounded down
dragCandidate_FloorSnap(t, dx, dy) ==
    LET durationH == t.endHour - t.startHour
        shiftDays == Round(dx, colWidth)
        newDayIdx == Min(LastDayIdx, Max(0, t.dateISO + shiftDays))
        shiftSlots == dy \div SLOT_H
        newStart == Min(Hours(END_HOUR) - durationH,
                        Max(Hours(START_HOUR), t.startHour + shiftSlots * HalfHour))
    IN  [t EXCEPT !.dateISO = newDayIdx, !.startHour = newStart,
                  !.endHour = newStart + durationH]

\* the task that the release of a drag submits
dragCandidate(t, dx, dy) ==
    LET durationH == t.endHour - t.startHour
        shiftDays == Round(dx, colWidth)
        newDayIdx == Min(LastDayIdx, Max(0, t.dateISO + shiftDays))
        shiftSlots == Round(dy, SLOT_H)
        newStart == Min(Hours(END_HOUR) - durationH,
                        Max(Hours(START_HOUR), t.startHour + shiftSlots * HalfHour))
    IN  [t EXCEPT !.dateISO = newDayIdx, !.startHour = newStart,
                  !.endHour = newStart + durationH]

\* onMouseDown.handleUp
dragUp ==
    LET updated == dragCandidate(gesture.t, gesture.dx, gesture.dy)
        res == upsertTask(gesture.tasks, tasks, updated)
    IN  /\ gesture.kind = "drag"
        /\ gesture' = NoGesture
        /\ IF ~gesture.moved
           THEN /\ modal' = [open |-> TRUE, mode |-> "edit",
                             existingTask |-> Some(gesture.t)]
                /\ last' = ClickCall(gesture.t.id, gesture.dx, gesture.dy)
                /\ UNCHANGED tasks
           ELSE /\ tasks' = res.next
                /\ last' = UpsertCall("drag", updated, res, tasks)
                /\ UNCHANGED modal
        /\ listeners' = listeners - 1
        /\ UNCHANGED <<file, storage, hoverTarget, hoveredTaskId, copiedTask, nextId>>

\* day column onMouseMove without the clamp of the hour
columnMouseMove_NoClamp(d, y) ==
    LET hour == Hours(START_HOUR) + Round(y, SLOT_H) * HalfHour
    IN  /\ ~modal.open
        /\ hoverTarget' = Some([dateISO |-> d, hour |-> hour])
        /\ last' = NoCall
        /\ UNCHANGED <<file, listeners, storage, tasks, gesture, hoveredTaskId, copiedTask, modal, nextId>>

\* day column onMouseMove, y pixels below the top of the column
columnMouseMove(d, y) ==
    LET hour == Hours(START_HOUR) + Round(y, SLOT_H) * HalfHour
    IN  /\ ~modal.open
        /\ hoverTarget' = Some([dateISO |-> d,
                                hour |-> Max(Hours(START_HOUR),
                                             Min(Hours(END_HOUR) - HalfHour, hour))])
        /\ last' = NoCall
        /\ UNCHANGED <<file, listeners, storage, tasks, gesture, hoveredTaskId, copiedTask, modal, nextId>>

\* task card onMouseMove over the card of tasks[i], y pixels below the top
\* of its day column.  The card's handler sets the target with the hour
\* clamped to END_HOUR - 1; the event then bubbles to the day column, whose
\* handler sets it again, and the state keeps the value set last; the
\* hover record keeps what the card's handler has set
cardMouseMove(i, y) ==
    LET hour == Hours(START_HOUR) + Round(y, SLOT_H) * HalfHour
        byCard == [dateISO |-> tasks[i].dateISO,
                   hour |-> Max(Hours(START_HOUR), Min(Hours(END_HOUR) - Hours(1), hour))]
        byColumn == [dateISO |-> tasks[i].dateISO,
                     hour |-> Max(Hours(START_HOUR),
                                  Min(Hours(END_HOUR) - HalfHour, hour))]
    IN  /\ ~modal.open
        /\ i \in 1..Len(tasks)
        /\ hoveredTaskId = Some(tasks[i].id)
        /\ (Hours(START_HOUR) + (y * 60) \div HOUR_H) \in
              tasks[i].startHour..tasks[i].endHour
        /\ hoverTarget' = Some(byColumn)
        /\ last' = [op |-> "hover", card |-> byCard]
        /\ UNCHANGED <<file, listeners, storage, tasks, gesture, hoveredTaskId, copiedTask, modal, nextId>>

\* day column onMouseLeave
columnMouseLeave ==
    /\ ~modal.open
    /\ hoverTarget # None
    /\ hoverTarget' = None
    /\ last' = NoCall
    /\ UNCHANGED <<file, listeners, storage, tasks, gesture, hoveredTaskId, copiedTask, modal, nextId>>

\* task card onMouseEnter
cardMouseEnter(i) ==
    /\ ~modal.open
    /\ gesture = NoGesture
    /\ i \in 1..Len(tasks)
    /\ hoveredTaskId' = Some(tasks[i].id)
    /\ last' = NoCall
    /\ UNCHANGED <<file, listeners, storage, tasks, gesture, hoverTarget, copiedTask, modal, nextId>>

\* task card onMouseLeave
cardMouseLeave(id) ==
    /\ ~modal.open
    /\ hoveredTaskId = Some(id)
    /\ hoveredTaskId' = None
    /\ last' = NoCall
    /\ UNCHANGED <<file, listeners, storage, tasks, gesture, hoverTarget, copiedTask, modal, nextId>>

\* a copy that takes the first stored task
keyCopy_First ==
    /\ hoveredTaskId # None
    /\ Find(tasks, hoveredTaskId[1]) # None
    /\ copiedTask' = Some(tasks[1])
    /\ last' = NoCall
    /\ UNCHANGED <<file, listeners, storage, tasks, gesture, hoverTarget, hoveredTaskId, modal, nextId>>

\* handleKey, Ctrl/Cmd+C
keyCopy ==
    /\ hoveredTaskId # None
    /\ Find(tasks, hoveredTaskId[1]) # None
    /\ copiedTask' = Find(tasks, hoveredTaskId[1])
    /\ last' = NoCall
    /\ UNCHANGED <<file, listeners, storage, tasks, gesture, hoverTarget, hoveredTaskId, modal, nextId>>

\* a paste candidate that keeps the id of the copied task
pasteCandidate_KeepsId(copied, target, id) ==
    LET duration == copied.endHour - copied.startHour
        start == Max(Hours(START_HOUR), Min(Hours(END_HOUR) - HalfHour, target.hour))
    IN  [copied EXCEPT !.dateISO = target.dateISO,
                       !.startHour = start, !.endHour = start + duration]

\* the task that the paste key submits
pasteCandidate(copied, target, id) ==
    LET duration == copied.endHour - copied.startHour
        start == Max(Hours(START_HOUR), Min(Hours(END_HOUR) - HalfHour, target.hour))
    IN  [copied EXCEPT !.id = id, !.dateISO = target.dateISO,
                       !.startHour = start, !.endHour = start + duration]

\* a paste that empties the clipboard
keyPaste_ClearsClipboard ==
    LET newTask == pasteCandidate(copiedTask[1], hoverTarget[1], nextId)
        res == upsertTask(tasks, tasks, newTask)
    IN  /\ copiedTask # None
        /\ hoverTarget # None
        /\ res.ok => nextId <= MaxId
        /\ tasks' = res.next
        /\ nextId' = IF res.ok THEN nextId + 1 ELSE nextId
        /\ copiedTask' = None
        /\ last' = UpsertCall("paste", newTask, res, tasks)
        /\ UNCHANGED <<file, listeners, storage, gesture, hoverTarget, hoveredTaskId, modal>>

\* handleKey, Ctrl/Cmd+V.  The id is a fresh random text; the id of a
\* rejected candidate is thrown away, so only the stored ones are counted
keyPaste ==
    LET newTask == pasteCandidate(copiedTask[1], hoverTarget[1], nextId)
        res == upsertTask(tasks, tasks, newTask)
    IN  /\ copiedTask # None
        /\ hoverTarget # None
        /\ res.ok => nextId <= MaxId
        /\ tasks' = res.next
        /\ nextId' = IF res.ok THEN nextId + 1 ELSE nextId
        /\ last' = UpsertCall("paste", newTask, res, tasks)
        /\ UNCHANGED <<file, listeners, storage, gesture, hoverTarget, hoveredTaskId, copiedTask, modal>>

Next ==
    \/ OpenCreate
    \/ CloseModal
    \/ \E f \in Forms : handleSave(f)
    \/ handleDelete
    \/ \E i \in 1..MaxId : onMouseDown(i)
    \/ \E m \in DragMoves : dragMove(m[1], m[2])
    \/ dragUp
    \/ \E d \in HoverDays, y \in HoverYs : columnMouseMove(d, y)
    \/ columnMouseLeave
    \/ \E i \in 1..MaxId : cardMouseEnter(i)
    \/ \E id \in 1..MaxId : cardMouseLeave(id)
    \/ keyCopy
    \/ keyPaste

Spec == Init /\ [][Next]_vars

----------------------------------------------------------------------------
(* upsertTask and deleteTask as a contract: called directly, through the   *)
(* closure of the current render, with any candidate.                      *)

ContractIds == {1, 2}

ContractTimes == {Hours(6), Hours(7), Hours(9) + 15, Hours(20), Hours(20) + 30}

\* every pair of times, on one well-formed billable task
TimeCandidates ==
    {Task(id, 0, s, e, "FACTURABLE", Some("Acme"), None, Some(FALSE)) :
        id \in ContractIds, s \in ContractTimes, e \in ContractTimes}

\* the category-conditioned fields: <<category, client, type, billed>>
ContractFields ==
    { <<"FACTURABLE", None, None, Some(FALSE)>>,
      <<"NON_FACTURABLE", None, Some("Admin"), None>>,
      <<"NON_FACTURABLE", None, None, None>>,
      <<"NON_FACTURABLE", Some("Acme"), Some("Admin"), None>>,
      <<"NON_FACTURABLE", None, Some("Admin"), Some(TRUE)>> }

FieldCandidates ==
    {Task(id, 1, Hours(9), Hours(10), f[1], f[2], f[3], f[4]) :
        id \in ContractIds, f \in ContractFields}

ContractCandidates == TimeCandidates \cup FieldCandidates

CallUpsert(task) ==
    LET res == upsertTask(tasks, tasks, task)
    IN  /\ tasks' = res.next
        /\ last' = UpsertCall("call", task, res, tasks)
        /\ UNCHANGED <<file, listeners, storage, gesture, hoverTarget, hoveredTaskId, copiedTask, modal, nextId>>

CallDelete(id) ==
    /\ tasks' = deleteApply(tasks, id)
    /\ last' = DeleteCall(id, tasks)
    /\ UNCHANGED <<file, listeners, storage, gesture, hoverTarget, hoveredTaskId, copiedTask, modal, nextId>>

NextContract ==
    \/ \E task \in ContractCandidates : CallUpsert(task)
    \/ \E id \in ContractIds : CallDelete(id)

SpecContract == Init /\ [][NextContract]_vars

----------------------------------------------------------------------------
(* The gestures on one card: drag and resize with any displacement.        *)

\* the candidate of a resize whose top handle keeps the duration
resizeCandidate_TopMovesEnd(t, pos, dy) ==
    LET durationH == t.endHour - t.startHour
        snap == Round(dy, SLOT_H) * HalfHour
        newDuration ==
            IF pos = "bottom"
            THEN Max(HalfHour, Min(Hours(END_HOUR) - t.startHour, durationH + snap))
            ELSE durationH
        newStart ==
            IF pos = "bottom" THEN t.startHour
            ELSE Max(Hours(START_HOUR), Min(t.endHour - HalfHour, t.startHour + snap))
    IN  [t EXCEPT !.startHour = newStart, !.endHour = newStart + newDuration]

\* the candidate of a resize without the minimum of half an hour
resizeCandidate_NoMinimum(t, pos, dy) ==
    LET durationH == t.endHour - t.startHour
        snap == Round(dy, SLOT_H) * HalfHour
        newDuration ==
            IF pos = "bottom"
            THEN Min(Hours(END_HOUR) - t.startHour, durationH + snap)
            ELSE t.endHour - Max(Hours(START_HOUR), t.startHour + snap)
        newStart ==
            IF pos = "bottom" THEN t.startHour
            ELSE Max(Hours(START_HOUR), t.startHour + snap)
    IN  [t EXCEPT !.startHour = newStart, !.endHour = newStart + newDuration]

\* the task that the release of a resize submits
resizeCandidate(t, pos, dy) ==
    LET durationH == t.endHour - t.startHour
        snap == Round(dy, SLOT_H) * HalfHour
        newDuration ==
            IF pos = "bottom"
            THEN Max(HalfHour, Min(Hours(END_HOUR) - t.startHour, durationH + snap))
            ELSE t.endHour - Max(Hours(START_HOUR),
                                 Min(t.endHour - HalfHour, t.startHour + snap))
        newStart ==
            IF pos = "bottom" THEN t.startHour
            ELSE Max(Hours(START_HOUR), Min(t.endHour - HalfHour, t.startHour + snap))
    IN  [t EXCEPT !.startHour = newStart, !.endHour = newStart + newDuration]

\* onResize(pos) on a handle of the card of tasks[i]
onResize(pos, i) ==
    /\ ~modal.open
    /\ gesture = NoGesture
    /\ i \in 1..Len(tasks)
    /\ hoveredTaskId = Some(tasks[i].id)
    /\ listeners < MaxListeners
    /\ gesture' = [kind |-> "resize", pos |-> pos, t |-> tasks[i], tasks |-> tasks,
                   dy |-> 0]
    /\ listeners' = listeners + 1
    /\ last' = NoCall
    /\ UNCHANGED <<file, storage, tasks, hoverTarget, hoveredTaskId, copiedTask, modal, nextId>>

\* onResize.handleMove
resizeMove(dy) ==
    /\ gesture.kind = "resize"
    /\ gesture' = [gesture EXCEPT !.dy = dy]
    /\ last' = NoCall
    /\ UNCHANGED <<file, listeners, storage, tasks, hoverTarget, hoveredTaskId, copiedTask, modal, nextId>>

\* onResize.handleUp
resizeUp ==
    LET updated == resizeCandidate(gesture.t, gesture.pos, gesture.dy)
        res == upsertTask(gesture.tasks, tasks, updated)
    IN  /\ gesture.kind = "resize"
        /\ gesture' = NoGesture
        /\ tasks' = res.next
        /\ last' = UpsertCall(gesture.pos, updated, res, tasks)
        /\ listeners' = listeners - 1
        /\ UNCHANGED <<file, storage, hoverTarget, hoveredTaskId, copiedTask, modal, nextId>>

\* displacements of the pointer since the mouse-down, in pixels
GestureMoves ==
    { <<0, 0>>, <<3, -3>>, <<4, 0>>, <<0, -4>>, <<0, 14>>, <<0, 15>>, <<0, -15>>,
      <<0, -16>>, <<0, 47>>, <<0, -47>>, <<0, 800>>, <<0, -800>>,
      <<colWidth \div 2, 0>>, <<(colWidth \div 2) - 1, 0>>, <<-(colWidth \div 2), 0>>,
      <<-(colWidth \div 2) - 1, 0>>, <<-colWidth, 47>>, <<1000, 0>>, <<-1000, -47>> }

ResizeMoves == {0, 14, 15, -15, -16, 47, -47, 800, -800}

\* the task on the grid when the gestures start
GestureTasks ==
    { Task(1, 0, Hours(7), Hours(7) + 30, "FACTURABLE", Some("Acme"), None, Some(FALSE)),
      Task(1, 2, Hours(9), Hours(10), "FACTURABLE", Some("Acme"), None, Some(FALSE)),
      Task(1, 5, Hours(18) + 30, Hours(20), "FACTURABLE", Some("Acme"), None, Some(FALSE)) }

\* the task of the next column that the second store holds beside task 1
Neighbour == Task(2, 3, Hours(9), Hours(10), "NON_FACTURABLE", None, Some("Admin"), None)
GestureStores ==
    {<<t>> : t \in GestureTasks} \cup
    {<<t, Neighbour>> : t \in {u \in GestureTasks : u.dateISO = 2}}

\* the pointer is on the card of task 1
InitGesture ==
    /\ tasks \in GestureStores
    /\ gesture = NoGesture
    /\ hoverTarget = None
    /\ hoveredTaskId = Some(1)
    /\ copiedTask = None
    /\ modal = Closed
    /\ nextId = Len(tasks) + 1
    /\ file = None
    /\ listeners = 0
    /\ storage = None
    /\ last = NoCall

NextGesture ==
    \/ onMouseDown(1)
    \/ \E m \in GestureMoves : dragMove(m[1], m[2])
    \/ dragUp
    \/ \E pos \in {"top", "bottom"} : onResize(pos, 1)
    \/ \E dy \in ResizeMoves : resizeMove(dy)
    \/ resizeUp
    \/ CloseModal

SpecGesture == InitGesture /\ [][NextGesture]_vars

----------------------------------------------------------------------------
(* The release of a gesture when the callback it calls throws.  onUpsert   *)
(* is a prop of the grid and openEdit sets five states; handleUp calls     *)
(* them outside any try block, so an exception leaves handleUp before the  *)
(* two removeEventListener calls.  isDragging / isResizing is already      *)
(* false by then, so the pair that stays attached returns at once on every *)
(* later event; a later gesture attaches a pair of its own and its release *)
(* detaches that one.                                                      *)

\* onMouseDown.handleUp when openEdit or onUpsert throws: an exception of
\* onUpsert comes before or after its setTasks
dragUpThrows ==
    LET updated == dragCandidate(gesture.t, gesture.dx, gesture.dy)
        res == upsertTask(gesture.tasks, tasks, updated)
    IN  /\ gesture.kind = "drag"
        /\ gesture' = NoGesture
        /\ tasks' \in IF gesture.moved THEN {tasks, res.next} ELSE {tasks}
        /\ last' = [op |-> "throw", by |-> "drag"]
        /\ UNCHANGED <<file, listeners, storage, hoverTarget, hoveredTaskId, copiedTask, modal, nextId>>

\* onResize.handleUp when onUpsert throws
resizeUpThrows ==
    LET updated == resizeCandidate(gesture.t, gesture.pos, gesture.dy)
        res == upsertTask(gesture.tasks, tasks, updated)
    IN  /\ gesture.kind = "resize"
        /\ gesture' = NoGesture
        /\ tasks' \in {tasks, res.next}
        /\ last' = [op |-> "throw", by |-> gesture.pos]
        /\ UNCHANGED <<file, listeners, storage, hoverTarget, hoveredTaskId, copiedTask, modal, nextId>>

NextRelease ==
    \/ onMouseDown(1)
    \/ \E m \in DragMoves : dragMove(m[1], m[2])
    \/ dragUp
    \/ dragUpThrows
    \/ \E pos \in {"top", "bottom"} : onResize(pos, 1)
    \/ \E dy \in {0, SLOT_H, -SLOT_H} : resizeMove(dy)
    \/ resizeUp
    \/ resizeUpThrows
    \/ CloseModal

SpecRelease == InitGesture /\ [][NextRelease]_vars

----------------------------------------------------------------------------
(* The pointer over the grid: the hover target, with and without a drag.   *)

\* positions of the pointer below the top of a day column, in pixels
PointerYs == {-5, 0, 14, 15, 134, 135, 704, 705, 734, 735, 764, 765, 780, 800}

NextPointer ==
    \/ \E d \in 0..LastDayIdx, y \in PointerYs : columnMouseMove(d, y)
    \/ \E y \in PointerYs : cardMouseMove(1, y)
    \/ columnMouseLeave
    \/ cardMouseEnter(1)
    \/ cardMouseLeave(1)
    \/ onMouseDown(1)
    \/ \E m \in DragMoves : dragMove(m[1], m[2])
    \/ dragUp
    \/ CloseModal

SpecPointer == InitGesture /\ [][NextPointer]_vars

----------------------------------------------------------------------------
(* Index.toCSV and CSVImport: the text interchange.  A string is a         *)
(* sequence of characters; a dateISO is the string YYYY-MM-DD.             *)

NL == "\n"
QUOTE == "\""
SEMI == ";"

DigitChars == <<"0", "1", "2", "3", "4", "5", "6", "7", "8", "9">>
IsDigit(c) == \E i \in 1..10 : DigitChars[i] = c
DigitVal(c) == (CHOOSE i \in 1..10 : DigitChars[i] = c) - 1

\* String(n) for a natural number n
RECURSIVE IntStr(_)
IntStr(n) ==
    IF n < 10 THEN <<DigitChars[n + 1]>>
    ELSE IntStr(n \div 10) \o <<DigitChars[(n % 10) + 1]>>

\* String(h) for a number of hours h >= 0 that is a multiple of a quarter,
\* h given in minutes: 450 is "7.5"
NumStr(m) ==
    IntStr(m \div 60) \o
        (CASE m % 60 = 0 -> <<>>
           [] m % 60 = 15 -> <<".", "2", "5">>
           [] m % 60 = 30 -> <<".", "5">>
           [] m % 60 = 45 -> <<".", "7", "5">>)

\* function pad(n), n in hours given in minutes
pad(m) == IF m < Hours(10) THEN <<"0">> \o NumStr(m) ELSE NumStr(m)

FACTURABLE_Str ==
    <<"F", "A", "C", "T", "U", "R", "A", "B", "L", "E">>
NON_FACTURABLE_Str ==
    <<"N", "O", "N", "_", "F", "A", "C", "T", "U", "R", "A", "B", "L", "E">>
oui == <<"o", "u", "i">>
non == <<"n", "o", "n">>

\* the category of a task as text
CategoryStr(category) ==
    IF category = "FACTURABLE" THEN FACTURABLE_Str ELSE NON_FACTURABLE_Str

\* toCSV: const header
header ==
    <<"d", "a", "t", "e", ";", "h", "e", "u", "r", "e", "_", "d", "e", "b",
      "u", "t", ";", "h", "e", "u", "r", "e", "_", "f", "i", "n", ";", "c",
      "a", "t", "e", "g", "o", "r", "i", "e", ";", "c", "l", "i", "e", "n",
      "t", ";", "p", "r", "o", "j", "e", "t", ";", "d", "e", "v", "i", "s",
      ";", "t", "y", "p", "e", ";", "d", "e", "s", "c", "r", "i", "p", "t",
      "i", "o", "n", ";", "d", "u", "r", "e", "e", "_", "h", ";", "f", "a",
      "c", "t", "u", "r", "e", "e">>

Includes(s, c) == \E i \in 1..Len(s) : s[i] = c

\* s.replace(/"/g, '""')
RECURSIVE DoubleQuotes(_)
DoubleQuotes(s) ==
    IF s = <<>> THEN <<>>
    ELSE (IF Head(s) = QUOTE THEN <<QUOTE, QUOTE>> ELSE <<Head(s)>>)
         \o DoubleQuotes(Tail(s))

\* escapeCSV that wraps the value without doubling its quotes
escapeCSV_NoDoubling(s) ==
    IF Includes(s, SEMI) \/ Includes(s, QUOTE) \/ Includes(s, NL)
    THEN <<QUOTE>> \o s \o <<QUOTE>>
    ELSE s

\* function escapeCSV(val), val already converted by String(val)
escapeCSV(s) ==
    IF Includes(s, SEMI) \/ Includes(s, QUOTE) \/ Includes(s, NL)
    THEN <<QUOTE>> \o DoubleQuotes(s) \o <<QUOTE>>
    ELSE s

\* field ?? ''
OrEmpty(field) == IF field = None THEN <<>> ELSE field[1]

\* parts.join(sep)
RECURSIVE Join(_, _)
Join(parts, sep) ==
    IF parts = <<>> THEN <<>>
    ELSE IF Len(parts) = 1 THEN parts[1]
    ELSE parts[1] \o sep \o Join(Tail(parts), sep)

\* a.localeCompare(b) < 0 on strings of digits and '-'
CharRank(c) == IF IsDigit(c) THEN DigitVal(c) + 1 ELSE 0
RECURSIVE StrLess(_, _)
StrLess(a, b) ==
    IF b = <<>> THEN FALSE
    ELSE IF a = <<>> THEN TRUE
    ELSE IF Head(a) = Head(b) THEN StrLess(Tail(a), Tail(b))
    ELSE CharRank(Head(a)) < CharRank(Head(b))

\* a comparator that looks at the start only
Before_StartOnly(a, b) == a.startHour < b.startHour

\* the comparator of toCSV is negative
Before(a, b) ==
    \/ StrLess(a.dateISO, b.dateISO)
    \/ a.dateISO = b.dateISO /\ a.startHour < b.startHour

\* list.slice().sort(comparator): the sort is stable
RECURSIVE Insert(_, _)
Insert(sorted, t) ==
    IF sorted = <<>> THEN <<t>>
    ELSE IF Before(t, Head(sorted)) THEN <<t>> \o sorted
    ELSE <<Head(sorted)>> \o Insert(Tail(sorted), t)
RECURSIVE SortTasks(_)
SortTasks(list) ==
    IF list = <<>> THEN <<>>
    ELSE Insert(SortTasks(SubSeq(list, 1, Len(list) - 1)), list[Len(list)])

\* toCSV: the fields of the row of t, before escapeCSV
toCSVFields(t) ==
    << t.dateISO,
       pad(t.startHour) \o <<":", "0", "0">>,
       pad(t.endHour) \o <<":", "0", "0">>,
       CategoryStr(t.category),
       OrEmpty(t.client),
       OrEmpty(t.project),
       OrEmpty(t.quote),
       OrEmpty(t.type),
       OrEmpty(t.description),
       NumStr(t.endHour - t.startHour),
       IF t.category = "FACTURABLE"
       THEN (IF t.billed = Some(TRUE) THEN oui ELSE non)
       ELSE <<>> >>

toCSVRow(t) ==
    LET fields == toCSVFields(t)
    IN  Join([i \in 1..Len(fields) |-> escapeCSV(fields[i])], <<SEMI>>)

\* function toCSV(list)
toCSV(list) ==
    LET sorted == SortTasks(list)
    IN  Join(<<header>> \o [i \in 1..Len(sorted) |-> toCSVRow(sorted[i])], <<NL>>)

\* handleFileSelect: const expectedHeader
expectedHeader ==
    <<"d", "a", "t", "e", ";", "h", "e", "u", "r", "e", "_", "d", "e", "b",
      "u", "t", ";", "h", "e", "u", "r", "e", "_", "f", "i", "n", ";", "c",
      "a", "t", "e", "g", "o", "r", "i", "e", ";", "c", "l", "i", "e", "n",
      "t", ";", "p", "r", "o", "j", "e", "t", ";", "d", "e", "v", "i", "s",
      ";", "t", "y", "p", "e", ";", "d", "e", "s", "c", "r", "i", "p", "t",
      "i", "o", "n", ";", "d", "u", "r", "e", "e", "_", "h", ";", "f", "a",
      "c", "t", "u", "r", "e", "e">>

\* the characters that String.prototype.trim removes, as far as they occur
WhiteSpace == {" ", "\t", "\r", NL}

\* text.split('\n'): the pieces between the line feeds
SplitLines(text) ==
    LET pos == {i \in 1..Len(text) : text[i] = NL}
        n == Cardinality(pos)
        kth(k) == CHOOSE i \in pos : Cardinality({j \in pos : j < i}) = k - 1
        first(k) == IF k = 1 THEN 1 ELSE kth(k - 1) + 1
        final(k) == IF k = n + 1 THEN Len(text) ELSE kth(k) - 1
    IN  [k \in 1..(n + 1) |-> SubSeq(text, first(k), final(k))]

RECURSIVE TrimStart(_)
TrimStart(s) ==
    IF s # <<>> /\ Head(s) \in WhiteSpace THEN TrimStart(Tail(s)) ELSE s
RECURSIVE TrimEnd(_)
TrimEnd(s) ==
    IF s # <<>> /\ s[Len(s)] \in WhiteSpace
    THEN TrimEnd(SubSeq(s, 1, Len(s) - 1)) ELSE s
\* line.trim()
Trim(s) == TrimEnd(TrimStart(s))

\* text.split('\n').map(line => line.trim()).filter(line => line)
LinesOf(text) ==
    LET split == SplitLines(text)
        trimmed == [i \in 1..Len(split) |-> Trim(split[i])]
    IN  SelectSeq(trimmed, LAMBDA line : line # <<>>)

\* the while loop of parseCSVLine, i counted from 1
RECURSIVE parseCSVLoop(_, _, _, _, _)
parseCSVLoop(line, i, current, inQuotes, result) ==
    IF i > Len(line) THEN Append(result, current)
    ELSE IF line[i] = QUOTE
    THEN IF inQuotes /\ i + 1 <= Len(line) /\ line[i + 1] = QUOTE
         THEN parseCSVLoop(line, i + 2, Append(current, QUOTE), inQuotes, result)
         ELSE parseCSVLoop(line, i + 1, current, ~inQuotes, result)
    ELSE IF line[i] = SEMI /\ ~inQuotes
    THEN parseCSVLoop(line, i + 1, <<>>, inQuotes, Append(result, current))
    ELSE parseCSVLoop(line, i + 1, Append(current, line[i]), inQuotes, result)

\* parseCSVLine that splits at every ';', quoted or not
parseCSVLine_EverySemi(line) ==
    LET pos == {i \in 1..Len(line) : line[i] = SEMI}
        n == Cardinality(pos)
        kth(k) == CHOOSE i \in pos : Cardinality({j \in pos : j < i}) = k - 1
        first(k) == IF k = 1 THEN 1 ELSE kth(k - 1) + 1
        final(k) == IF k = n + 1 THEN Len(line) ELSE kth(k) - 1
    IN  [k \in 1..(n + 1) |-> SubSeq(line, first(k), final(k))]

\* function parseCSVLine(line)
parseCSVLine(line) == parseCSVLoop(line, 1, <<>>, FALSE, <<>>)

AllDigits(s) == \A i \in 1..Len(s) : IsDigit(s[i])

\* parseInt(s, 10) on a string of digits
RECURSIVE ParseInt(_)
ParseInt(s) ==
    IF s = <<>> THEN 0
    ELSE 10 * ParseInt(SubSeq(s, 1, Len(s) - 1)) + DigitVal(s[Len(s)])

\* time.match(/^(\d{1,2}):(\d{2})$/)
TimeMatch(time) ==
    /\ Len(time) \in {4, 5}
    /\ AllDigits(SubSeq(time, 1, Len(time) - 3))
    /\ time[Len(time) - 2] = ":"
    /\ AllDigits(SubSeq(time, Len(time) - 1, Len(time)))

\* function parseTimeToHour(time): the hour in minutes, or the error thrown
parseTimeToHour(time) ==
    IF ~TimeMatch(time) THEN [ok |-> FALSE, error |-> "format"]
    ELSE LET hours == ParseInt(SubSeq(time, 1, Len(time) - 3))
             minutes == ParseInt(SubSeq(time, Len(time) - 1, Len(time)))
         IN  IF hours < 0 \/ hours > 23 \/ (minutes # 0 /\ minutes # 30)
             THEN [ok |-> FALSE, error |-> "value"]
             ELSE [ok |-> TRUE,
                   hour |-> Hours(hours) + (IF minutes = 30 THEN HalfHour ELSE 0)]

\* /^\d{4}-\d{2}-\d{2}$/.test(dateISO)
DateMatch(dateISO) ==
    /\ Len(dateISO) = 10
    /\ AllDigits(SubSeq(dateISO, 1, 4))
    /\ dateISO[5] = "-"
    /\ AllDigits(SubSeq(dateISO, 6, 7))
    /\ dateISO[8] = "-"
    /\ AllDigits(SubSeq(dateISO, 9, 10))

\* s.toLowerCase() on the letters of 'oui' and 'non'
toLowerCase(s) ==
    [i \in 1..Len(s) |->
        CASE s[i] = "O" -> "o" [] s[i] = "U" -> "u" [] s[i] = "I" -> "i"
          [] s[i] = "N" -> "n" [] OTHER -> s[i]]

\* field || undefined, on text
OrUndefinedText(s) == IF s = <<>> THEN None ELSE Some(s)

\* the body of the loop with the category checked before the date
parseDataLine_CategoryFirst(line, lineNum, id) ==
    LET fields == parseCSVLine(line)
        dateISO == fields[1]
        startHour == parseTimeToHour(fields[2])
        endHour == parseTimeToHour(fields[3])
        categorie == fields[4]
        facturee == fields[11]
        Err(rule) == [ok |-> FALSE, error |-> [line |-> lineNum, rule |-> rule]]
        billedKnown == toLowerCase(facturee) \in {oui, non}
        billed == categorie = FACTURABLE_Str /\ facturee # <<>>
                  /\ toLowerCase(facturee) = oui
    IN  IF Len(fields) # 11 THEN Err("columns")
        ELSE IF categorie # FACTURABLE_Str /\ categorie # NON_FACTURABLE_Str
        THEN Err("category")
        ELSE IF ~DateMatch(dateISO) THEN Err("date")
        ELSE IF ~startHour.ok THEN Err("start")
        ELSE IF ~endHour.ok THEN Err("end")
        ELSE IF startHour.hour >= endHour.hour THEN Err("order")
        ELSE IF categorie = FACTURABLE_Str /\ facturee # <<>> /\ ~billedKnown
        THEN Err("billed")
        ELSE [ok |-> TRUE,
              task |-> [id |-> id, dateISO |-> dateISO,
                        startHour |-> startHour.hour, endHour |-> endHour.hour,
                        category |-> IF categorie = FACTURABLE_Str
                                     THEN "FACTURABLE" ELSE "NON_FACTURABLE",
                        client |-> OrUndefinedText(fields[5]),
                        project |-> OrUndefinedText(fields[6]),
                        quote |-> OrUndefinedText(fields[7]),
                        type |-> OrUndefinedText(fields[8]),
                        description |-> OrUndefinedText(fields[9]),
                        billed |-> Some(billed)]]

\* body of the for loop of handleFileSelect for one line: the task pushed,
\* or the error pushed, named by the rule whose throw was caught
parseDataLine(line, lineNum, id) ==
    LET fields == parseCSVLine(line)
        dateISO == fields[1]
        startHour == parseTimeToHour(fields[2])
        endHour == parseTimeToHour(fields[3])
        categorie == fields[4]
        facturee == fields[11]
        Err(rule) == [ok |-> FALSE, error |-> [line |-> lineNum, rule |-> rule]]
        billedKnown == toLowerCase(facturee) \in {oui, non}
        billed == categorie = FACTURABLE_Str /\ facturee # <<>>
                  /\ toLowerCase(facturee) = oui
    IN  IF Len(fields) # 11 THEN Err("columns")
        ELSE IF ~DateMatch(dateISO) THEN Err("date")
        ELSE IF ~startHour.ok THEN Err("start")
        ELSE IF ~endHour.ok THEN Err("end")
        ELSE IF startHour.hour >= endHour.hour THEN Err("order")
        ELSE IF categorie # FACTURABLE_Str /\ categorie # NON_FACTURABLE_Str
        THEN Err("category")
        ELSE IF categorie = FACTURABLE_Str /\ facturee # <<>> /\ ~billedKnown
        THEN Err("billed")
        ELSE [ok |-> TRUE,
              task |-> [id |-> id, dateISO |-> dateISO,
                        startHour |-> startHour.hour, endHour |-> endHour.hour,
                        category |-> IF categorie = FACTURABLE_Str
                                     THEN "FACTURABLE" ELSE "NON_FACTURABLE",
                        client |-> OrUndefinedText(fields[5]),
                        project |-> OrUndefinedText(fields[6]),
                        quote |-> OrUndefinedText(fields[7]),
                        type |-> OrUndefinedText(fields[8]),
                        description |-> OrUndefinedText(fields[9]),
                        billed |-> Some(billed)]]

\* the for loop of handleFileSelect from line i on: tasks and errors
RECURSIVE parseDataLines(_, _, _, _, _)
parseDataLines(lines, i, parsed, errors, id) ==
    IF i > Len(lines) THEN [tasks |-> parsed, errors |-> errors]
    ELSE LET r == parseDataLine(lines[i], i, id)
         IN  IF r.ok
             THEN parseDataLines(lines, i + 1, Append(parsed, r.task), errors, id + 1)
             ELSE parseDataLines(lines, i + 1, parsed, Append(errors, r.error), id)

ImportResult(outcome, errors, imported) ==
    [outcome |-> outcome, errors |-> errors, imported |-> imported]

\* handleFileSelect that hands the parsed tasks to onImport although some
\* lines failed
importFile_Partial(csvName, text, id) ==
    LET lines == LinesOf(text)
        res == parseDataLines(lines, 2, <<>>, <<>>, id)
    IN  IF ~csvName THEN ImportResult("not csv", <<>>, <<>>)
        ELSE IF lines = <<>> THEN ImportResult("empty file", <<>>, <<>>)
        ELSE IF lines[1] # expectedHeader THEN ImportResult("header", <<>>, <<>>)
        ELSE IF res.tasks = <<>> /\ res.errors # <<>>
        THEN ImportResult("line errors", res.errors, <<>>)
        ELSE IF res.tasks = <<>> THEN ImportResult("no task", <<>>, <<>>)
        ELSE ImportResult("ok", res.errors, res.tasks)

\* handleFileSelect that compares the header after the data lines are parsed
importFile_HeaderLast(csvName, text, id) ==
    LET lines == LinesOf(text)
        res == parseDataLines(lines, 2, <<>>, <<>>, id)
    IN  IF ~csvName THEN ImportResult("not csv", <<>>, <<>>)
        ELSE IF lines = <<>> THEN ImportResult("empty file", <<>>, <<>>)
        ELSE IF res.errors # <<>> THEN ImportResult("line errors", res.errors, <<>>)
        ELSE IF lines[1] # expectedHeader THEN ImportResult("header", <<>>, <<>>)
        ELSE IF res.tasks = <<>> THEN ImportResult("no task", <<>>, <<>>)
        ELSE ImportResult("ok", <<>>, res.tasks)

\* handleFileSelect without the test for an empty list of tasks
importFile_EmptyOk(csvName, text, id) ==
    LET lines == LinesOf(text)
        res == parseDataLines(lines, 2, <<>>, <<>>, id)
    IN  IF ~csvName THEN ImportResult("not csv", <<>>, <<>>)
        ELSE IF lines = <<>> THEN ImportResult("empty file", <<>>, <<>>)
        ELSE IF lines[1] # expectedHeader THEN ImportResult("header", <<>>, <<>>)
        ELSE IF res.errors # <<>> THEN ImportResult("line errors", res.errors, <<>>)
        ELSE ImportResult("ok", <<>>, res.tasks)

\* handleFileSelect on a file of this name and text: what is reported, the
\* errors collected per line, and the argument of onImport when it is called
\* (outcome "ok"); ids are minted from id on
importFile(csvName, text, id) ==
    LET lines == LinesOf(text)
        res == parseDataLines(lines, 2, <<>>, <<>>, id)
    IN  IF ~csvName THEN ImportResult("not csv", <<>>, <<>>)
        ELSE IF lines = <<>> THEN ImportResult("empty file", <<>>, <<>>)
        ELSE IF lines[1] # expectedHeader THEN ImportResult("header", <<>>, <<>>)
        ELSE IF res.errors # <<>> THEN ImportResult("line errors", res.errors, <<>>)
        ELSE IF res.tasks = <<>> THEN ImportResult("no task", <<>>, <<>>)
        ELSE ImportResult("ok", <<>>, res.tasks)

\* texts of dates, times and categories used by the collections and the files
Jan5 == <<"2", "0", "2", "5", "-", "0", "1", "-", "0", "5">>
Jan6 == <<"2", "0", "2", "5", "-", "0", "1", "-", "0", "6">>
Jan7 == <<"2", "0", "2", "5", "-", "0", "1", "-", "0", "7">>
SlashDate == <<"0", "6", "/", "0", "1", "/", "2", "0", "2", "5">>
T0900 == <<"0", "9", ":", "0", "0">>
T2500 == <<"2", "5", ":", "0", "0">>
T9h == <<"9", "h">>
T1000 == <<"1", "0", ":", "0", "0">>
T0800 == <<"0", "8", ":", "0", "0">>
T105 == <<"1", "0", ".", "5", ":", "0", "0">>
BILLABLE_Str == <<"B", "I", "L", "L", "A", "B", "L", "E">>
T930 == <<"9", ":", "3", "0">>
\* a header with other column names
EnglishHeader ==
    <<"d", "a", "t", "e", ";", "s", "t", "a", "r", "t", "_", "t", "i", "m",
      "e", ";", "e", "n", "d", "_", "t", "i", "m", "e", ";", "c", "a", "t",
      "e", "g", "o", "r", "y", ";", "c", "l", "i", "e", "n", "t", ";", "p",
      "r", "o", "j", "e", "c", "t", ";", "q", "u", "o", "t", "e", ";", "t",
      "y", "p", "e", ";", "d", "e", "s", "c", "r", "i", "p", "t", "i", "o",
      "n", ";", "d", "u", "r", "a", "t", "i", "o", "n", "_", "h", ";", "b",
      "i", "l", "l", "e", "d">>

\* the tasks of the collections that are exported: valid tasks, no two of
\* which overlap
CodecTasks ==
    { Task(0, Jan6, Hours(9), Hours(10),
           "FACTURABLE", Some(<<"A">>), None, Some(FALSE)),
      [Task(0, Jan6, Hours(7) + 30, Hours(9),
            "FACTURABLE", Some(<<"A">>), None, Some(TRUE))
         EXCEPT !.project = Some(<<"P">>), !.quote = Some(<<"Q">>),
                !.description = Some(<<"a", ";", "b">>)],
      [Task(0, Jan7, Hours(10), Hours(11),
            "NON_FACTURABLE", None, Some(<<"T">>), None)
         EXCEPT !.description = Some(<<"x", QUOTE, "y">>)],
      [Task(0, Jan5, Hours(10), Hours(11),
            "FACTURABLE", Some(<<"B">>), None, Some(FALSE))
         EXCEPT !.description = Some(<<"a", NL, "b">>)],
      Task(0, Jan5, Hours(8), Hours(9),
           "FACTURABLE", Some(<<"A", ";", "B">>), None, Some(TRUE)) }

\* the stored collections: up to two tasks, ids 1.. in the order of insertion
CodecCollections ==
    {<<>>} \cup {<<[a EXCEPT !.id = 1]>> : a \in CodecTasks}
    \cup {<<[p[1] EXCEPT !.id = 1], [p[2] EXCEPT !.id = 2]>> :
            p \in {q \in CodecTasks \X CodecTasks : q[1] # q[2]}}

\* a data line of a file, given the text of its fields
DataLine(date, start, end, categorie, client, type, facturee) ==
    Join(<<date, start, end, categorie, client, <<>>, <<>>, type, <<>>,
           <<"1">>, facturee>>, <<SEMI>>)

\* the field values that the files try, right and wrong ones
FileDates == {Jan6, SlashDate}
FileStarts == {T0900, T2500, T9h}
FileEnds == {T1000, T0800, T105}
FileCategories == {FACTURABLE_Str, NON_FACTURABLE_Str, BILLABLE_Str}
FileClients == {<<>>, <<"A">>}
FileTypes == {<<>>, <<"T">>}
FileBilled == {<<>>, <<"O", "u", "i">>, <<"y", "e", "s">>}

FileLines ==
    {DataLine(d, st, en, c, cl, ty, b) :
        d \in FileDates, st \in FileStarts, en \in FileEnds, c \in FileCategories,
        cl \in FileClients, ty \in FileTypes, b \in FileBilled}

GoodLine == DataLine(Jan6, T0900, T1000, FACTURABLE_Str, <<"A">>, <<>>, non)
HalfHourLine == DataLine(Jan7, T930, T1000, NON_FACTURABLE_Str, <<>>, <<"T">>, <<>>)
LateLine == DataLine(Jan6, T2500, T1000, FACTURABLE_Str, <<"A">>, <<>>, non)
ShortLine == Join(<<Jan6, T0900, T1000>>, <<SEMI>>)
\* eleven fields, one of them the quoted text a;b
QuotedLine ==
    Join(<<Jan6, T0900, T1000, FACTURABLE_Str, <<"A">>, <<>>, <<>>, <<>>,
           <<QUOTE, "a", ";", "b", QUOTE>>, <<"1">>, oui>>, <<SEMI>>)
\* the same with the quotes left out: twelve fields
UnquotedLine ==
    Join(<<Jan6, T0900, T1000, FACTURABLE_Str, <<"A">>, <<>>, <<>>, <<>>,
           <<"a", ";", "b">>, <<"1">>, oui>>, <<SEMI>>)

PairLines == {GoodLine, HalfHourLine, LateLine, ShortLine}

FileOf(lines) == Join(lines, <<NL>>)

FileTexts ==
    {FileOf(<<expectedHeader, l>>) : l \in FileLines \cup {QuotedLine, UnquotedLine}}
    \cup {FileOf(<<expectedHeader, a, b>>) : a \in PairLines, b \in PairLines}
    \cup { <<>>,
           <<NL, " ", NL>>,
           expectedHeader,
           expectedHeader \o <<NL>>,
           GoodLine,
           FileOf(<<EnglishHeader, GoodLine>>),
           FileOf(<<EnglishHeader, LateLine>>),
           FileOf(<<expectedHeader \o <<"x">>, ShortLine>>),
           FileOf(<<expectedHeader \o <<"\r">>, GoodLine \o <<"\r">>>>),
           FileOf(<<<<>>, expectedHeader, <<>>, <<" ">>, LateLine, GoodLine>>) }

\* the files that are chosen: every text under a name ending in .csv, two
\* of them under another name
Files ==
    {[csvName |-> TRUE, text |-> text] : text \in FileTexts}
    \cup {[csvName |-> FALSE, text |-> text] :
            text \in {GoodLine, FileOf(<<expectedHeader, GoodLine>>)}}

\* a collection is stored, or the store is empty and a file has been chosen
InitCodec ==
    /\ \/ tasks \in CodecCollections /\ file = None
       \/ tasks = <<>> /\ file \in {Some(f) : f \in Files}
    /\ gesture = NoGesture
    /\ hoverTarget = None
    /\ hoveredTaskId = None
    /\ copiedTask = None
    /\ modal = Closed
    /\ nextId = Len(tasks) + 1
    /\ listeners = 0
    /\ storage = None
    /\ last = NoCall

\* exportAll: the text handed to downloadCSV
exportAll ==
    /\ file = None
    /\ last' = [op |-> "export", csv |-> toCSV(tasks)]
    /\ UNCHANGED <<listeners, storage, tasks, gesture, hoverTarget, hoveredTaskId, copiedTask, modal,
                   nextId, file>>

\* the user chooses the file that the last export has written
chooseExported ==
    /\ last.op = "export"
    /\ file = None
    /\ file' = Some([csvName |-> TRUE, text |-> last.csv])
    /\ UNCHANGED <<listeners, storage, tasks, gesture, hoverTarget, hoveredTaskId, copiedTask, modal,
                   nextId, last>>

\* handleFileSelect on the chosen file; onImport is a prop that Index does
\* not bind, so its argument is recorded and the store is left alone
handleFileSelect ==
    LET res == importFile(file[1].csvName, file[1].text, nextId)
    IN  /\ file # None
        /\ nextId - Len(tasks) <= MaxId
        /\ last' = [op |-> "import", csvName |-> file[1].csvName,
                    text |-> file[1].text, outcome |-> res.outcome,
                    errors |-> res.errors, imported |-> res.imported]
        /\ nextId' = nextId + Len(res.imported)
        /\ file' = None
        /\ UNCHANGED <<listeners, storage, tasks, gesture, hoverTarget, hoveredTaskId, copiedTask, modal>>

NextCodec ==
    \/ exportAll
    \/ chooseExported
    \/ handleFileSelect

SpecCodec == InitCodec /\ [][NextCodec]_vars

----------------------------------------------------------------------------
(* The row of toCSV and parseCSVLine on lists of eleven field texts.       *)

\* the longest field text that is varied
MaxField == 2
FieldTexts ==
    UNION {[1..k -> {"a", SEMI, QUOTE}] : k \in 0..MaxField}
    \cup {<<" ">>, <<" ", "a", " ">>}

\* lists of 11 fields: the first, the second and the last are varied
FieldLists ==
    { [i \in 1..11 |->
          CASE i = 1 -> p[1] [] i = 2 -> p[2] [] i = 11 -> p[3]
            [] OTHER -> IF i % 2 = 0 THEN <<>> ELSE <<"x">>] :
      p \in FieldTexts \X FieldTexts \X FieldTexts }

InitFields ==
    /\ last \in {[op |-> "fields", fields |-> list] : list \in FieldLists}
    /\ tasks = <<>>
    /\ gesture = NoGesture
    /\ hoverTarget = None
    /\ hoveredTaskId = None
    /\ copiedTask = None
    /\ modal = Closed
    /\ nextId = 1
    /\ file = None
    /\ listeners = 0
    /\ storage = None

\* toCSV: fields.map(escapeCSV).join(';')
joinFields ==
    /\ last.op = "fields"
    /\ last' = [op |-> "line", fields |-> last.fields,
                line |-> Join([i \in 1..11 |-> escapeCSV(last.fields[i])], <<SEMI>>)]
    /\ UNCHANGED <<file, listeners, storage, tasks, gesture, hoverTarget, hoveredTaskId, copiedTask, modal, nextId>>

\* handleFileSelect: parseCSVLine(line)
splitLine ==
    /\ last.op = "line"
    /\ last' = [op |-> "split", fields |-> last.fields, line |-> last.line,
                result |-> parseCSVLine(last.line)]
    /\ UNCHANGED <<file, listeners, storage, tasks, gesture, hoverTarget, hoveredTaskId, copiedTask, modal, nextId>>

NextFields == joinFields \/ splitLine

SpecFields == InitFields /\ [][NextFields]_vars

----------------------------------------------------------------------------
(* Index: the load and save effects.  The stored item is a text; a parsed  *)
(* JSON value is a record tagged by t: "null", "bool", "num", "str", "arr" *)
(* (items) or "obj" (members, a sequence of <<key, value>>).               *)

JSONFail(i) == [ok |-> FALSE, v |-> [t |-> "null"], next |-> i]
JSONOk(v, i) == [ok |-> TRUE, v |-> v, next |-> i]

\* the first position from i on that holds no white space
SkipSpace(s, i) ==
    LET rest == {j \in i..Len(s) : s[j] \notin WhiteSpace}
    IN  IF rest = {} THEN Len(s) + 1 ELSE CHOOSE j \in rest : \A k \in rest : j <= k

\* s has the characters of word from position i on
StartsWith(s, i, word) ==
    /\ i + Len(word) - 1 <= Len(s)
    /\ SubSeq(s, i, i + Len(word) - 1) = word

\* JSON.parse: the value that starts at position i0 of s.  DigitsEnd is the
\* end of the run of digits from i on, StringEnd the closing quote of the
\* string that opens at i (strings without escapes), 0 if there is none
RECURSIVE JSONValue(_, _)
RECURSIVE JSONItems(_, _, _)
RECURSIVE JSONMembers(_, _, _)
JSONValue(s, i0) ==
    LET i == SkipSpace(s, i0)
        DigitsEnd(t, a) ==
            LET stop == {j \in a..Len(t) : ~IsDigit(t[j])}
            IN  IF stop = {} THEN Len(t)
                ELSE (CHOOSE j \in stop : \A k \in stop : j <= k) - 1
        StringEnd(t, a) ==
            LET close == {j \in (a + 1)..Len(t) : t[j] = QUOTE}
            IN  IF close = {} THEN 0 ELSE CHOOSE j \in close : \A k \in close : j <= k
    IN  IF i > Len(s) THEN JSONFail(i)
        ELSE IF StartsWith(s, i, <<"n", "u", "l", "l">>)
        THEN JSONOk([t |-> "null"], i + 4)
        ELSE IF StartsWith(s, i, <<"t", "r", "u", "e">>)
        THEN JSONOk([t |-> "bool", b |-> TRUE], i + 4)
        ELSE IF StartsWith(s, i, <<"f", "a", "l", "s", "e">>)
        THEN JSONOk([t |-> "bool", b |-> FALSE], i + 5)
        ELSE IF s[i] = "0" THEN JSONOk([t |-> "num", n |-> 0], i + 1)
        ELSE IF IsDigit(s[i])
        THEN JSONOk([t |-> "num", n |-> ParseInt(SubSeq(s, i, DigitsEnd(s, i)))],
                    DigitsEnd(s, i) + 1)
        ELSE IF s[i] = QUOTE
        THEN IF StringEnd(s, i) = 0 THEN JSONFail(i)
             ELSE JSONOk([t |-> "str", s |-> SubSeq(s, i + 1, StringEnd(s, i) - 1)],
                         StringEnd(s, i) + 1)
        ELSE IF s[i] = "["
        THEN IF SkipSpace(s, i + 1) <= Len(s) /\ s[SkipSpace(s, i + 1)] = "]"
             THEN JSONOk([t |-> "arr", items |-> <<>>], SkipSpace(s, i + 1) + 1)
             ELSE JSONItems(s, i + 1, <<>>)
        ELSE IF s[i] = "{"
        THEN IF SkipSpace(s, i + 1) <= Len(s) /\ s[SkipSpace(s, i + 1)] = "}"
             THEN JSONOk([t |-> "obj", members |-> <<>>], SkipSpace(s, i + 1) + 1)
             ELSE JSONMembers(s, i + 1, <<>>)
        ELSE JSONFail(i)

\* the items of an array from position i on, after the items of acc
JSONItems(s, i, acc) ==
    LET item == JSONValue(s, i)
        j == SkipSpace(s, item.next)
    IN  IF ~item.ok \/ j > Len(s) THEN JSONFail(i)
        ELSE IF s[j] = "]"
        THEN JSONOk([t |-> "arr", items |-> Append(acc, item.v)], j + 1)
        ELSE IF s[j] = "," THEN JSONItems(s, j + 1, Append(acc, item.v))
        ELSE JSONFail(j)

\* the members of an object from position i on, after the members of acc
JSONMembers(s, i, acc) ==
    LET k == SkipSpace(s, i)
        key == IF k <= Len(s) /\ s[k] = QUOTE THEN JSONValue(s, k) ELSE JSONFail(k)
        colon == SkipSpace(s, key.next)
        val == IF key.ok /\ colon <= Len(s) /\ s[colon] = ":"
               THEN JSONValue(s, colon + 1) ELSE JSONFail(colon)
        j == SkipSpace(s, val.next)
    IN  IF ~val.ok \/ j > Len(s) THEN JSONFail(i)
        ELSE IF s[j] = "}"
        THEN JSONOk([t |-> "obj", members |-> Append(acc, <<key.v.s, val.v>>)], j + 1)
        ELSE IF s[j] = ","
        THEN JSONMembers(s, j + 1, Append(acc, <<key.v.s, val.v>>))
        ELSE JSONFail(j)

\* JSON.parse(raw): ok is FALSE where JSON.parse throws a SyntaxError
JSONParse(raw) ==
    LET r == JSONValue(raw, 1)
    IN  IF r.ok /\ SkipSpace(raw, r.next) > Len(raw) THEN r ELSE JSONFail(1)

\* JSON.stringify(v)
RECURSIVE JSONText(_)
RECURSIVE JSONTextList(_, _)
JSONText(v) ==
    CASE v.t = "null" -> <<"n", "u", "l", "l">>
      [] v.t = "bool" -> IF v.b THEN <<"t", "r", "u", "e">>
                                ELSE <<"f", "a", "l", "s", "e">>
      [] v.t = "num" -> IntStr(v.n)
      [] v.t = "str" -> <<QUOTE>> \o v.s \o <<QUOTE>>
      [] v.t = "arr" -> <<"[">> \o JSONTextList(v.items, FALSE) \o <<"]">>
      [] v.t = "obj" -> <<"{">> \o JSONTextList(v.members, TRUE) \o <<"}">>
JSONTextList(list, keyed) ==
    IF list = <<>> THEN <<>>
    ELSE (IF keyed
          THEN <<QUOTE>> \o list[1][1] \o <<QUOTE, ":">> \o JSONText(list[1][2])
          ELSE JSONText(list[1]))
         \o (IF Len(list) > 1 THEN <<",">> ELSE <<>>)
         \o JSONTextList(Tail(list), keyed)

\* a load effect that stores whatever value was parsed
loadTasks_NoArrayCheck(raw) ==
    IF raw = None \/ raw[1] = <<>> THEN <<>>
    ELSE IF ~JSONParse(raw[1]).ok THEN <<>>
    ELSE IF JSONParse(raw[1]).v.t = "arr" THEN JSONParse(raw[1]).v.items
    ELSE <<JSONParse(raw[1]).v>>

\* the load effect: the tasks state after it, the state being [] before.
\* raw is null or '' : no setTasks; JSON.parse throws: catch {}
loadTasks(raw) ==
    IF raw = None \/ raw[1] = <<>> THEN <<>>
    ELSE IF ~JSONParse(raw[1]).ok THEN <<>>
    ELSE IF JSONParse(raw[1]).v.t = "arr" THEN JSONParse(raw[1]).v.items
    ELSE <<>>

\* the characters of the stored texts, and the texts
MaxText == 3
StoredTexts ==
    UNION {[1..k -> {"[", "]", "{", "}", "7", ",", " "}] : k \in 0..MaxText} \cup
    { <<"n", "u", "l", "l">>, <<"n", "u", "l">>, <<"t", "r", "u", "e">>,
      <<"0", "7">>, <<"7", "0">>, <<QUOTE, "a", QUOTE>>, <<QUOTE, "a">>,
      <<"{", QUOTE, "a", QUOTE, ":", "7", "}">>,
      <<"{", QUOTE, "a", QUOTE, "7", "}">>,
      <<"[", "{", QUOTE, "i", "d", QUOTE, ":", QUOTE, "a", QUOTE, ",",
        QUOTE, "s", QUOTE, ":", "7", "}", "]">>,
      <<"[", "7", ",", "[", "7", "]", ",", "n", "u", "l", "l", "]">>,
      <<"[", "7", "]", "7">> }

InitLoad ==
    /\ storage \in {None} \cup {Some(text) : text \in StoredTexts}
    /\ tasks = <<>>
    /\ gesture = NoGesture
    /\ hoverTarget = None
    /\ hoveredTaskId = None
    /\ copiedTask = None
    /\ modal = Closed
    /\ nextId = 1
    /\ file = None
    /\ listeners = 0
    /\ last = NoCall

\* Index mounts: the load effect calls setTasks, then the save effect of
\* the same commit writes the tasks of the first render, which are []
mount ==
    /\ last = NoCall
    /\ tasks' = loadTasks(storage)
    /\ storage' = Some(JSONText([t |-> "arr", items |-> <<>>]))
    /\ last' = [op |-> "load", raw |-> storage]
    /\ UNCHANGED <<file, listeners, gesture, hoverTarget, hoveredTaskId, copiedTask, modal, nextId>>

\* the save effect after the render that has the loaded tasks
saveEffect ==
    /\ last.op = "load"
    /\ storage' = Some(JSONText([t |-> "arr", items |-> tasks]))
    /\ last' = [op |-> "save"]
    /\ UNCHANGED <<file, listeners, tasks, gesture, hoverTarget, hoveredTaskId, copiedTask, modal, nextId>>

NextLoad == mount \/ saveEffect

SpecLoad == InitLoad /\ [][NextLoad]_vars

----------------------------------------------------------------------------
(* Properties *)

\* the half-open intervals [startHour, endHour) of two tasks of the same date
\* have a point in common
Intersects(a, b) ==
    /\ a.dateISO = b.dateISO
    /\ Max(a.startHour, b.startHour) < Min(a.endHour, b.endHour)

InRange(t) == Hours(START_HOUR) <= t.startHour /\ t.endHour <= Hours(END_HOUR)

Upserted == last.op = "upsert"

\* the stored tasks whose id is not id
Others(list, id) == {list[i] : i \in {j \in 1..Len(list) : list[j].id # id}}

OutOfWindow(h) == h < Hours(START_HOUR) \/ h > Hours(END_HOUR)

OnHalfHour(h) == h % HalfHour = 0

IsSet(field) == field # None /\ field # Some("")

\* the category-conditioned field rules of a task
FieldRules(t) ==
    IF t.category = "FACTURABLE"
    THEN IsSet(t.client)
    ELSE /\ IsSet(t.type)
         /\ t.client = None /\ t.project = None /\ t.quote = None /\ t.billed = None

\* C1: no two distinct stored tasks of the same date have intersecting
\* half-open intervals [startHour, endHour).
C1_NoOverlap ==
    \A i, j \in 1..Len(tasks) : i # j => ~Intersects(tasks[i], tasks[j])

\* C2: a call of upsertTask that returns an error leaves the stored
\* collection exactly as it was before the call.
C2_ErrorLeavesStore ==
    [][(last'.op = "upsert" /\ ~last'.ok) => tasks' = tasks]_vars

C2_Witness ==
    /\ Upserted /\ ~last.ok /\ last.error = "overlap"
    /\ Len(tasks) >= 1

\* C3: an in-range candidate whose interval intersects the interval of a
\* stored task of the same date and another id is rejected, and the error is
\* the overlap error.
C3_OverlapRejected ==
    [][(/\ last'.op = "upsert"
        /\ InRange(last'.task)
        /\ \E o \in Others(tasks, last'.task.id) : Intersects(last'.task, o))
       => (~last'.ok /\ last'.error = "overlap")]_vars

\* C4: an in-range candidate that touches a stored task of its date at an
\* endpoint and intersects no stored task of another id is accepted.
C4_TouchingAccepted ==
    [][(/\ last'.op = "upsert"
        /\ InRange(last'.task)
        /\ \E o \in Others(tasks, last'.task.id) :
              /\ o.dateISO = last'.task.dateISO
              /\ last'.task.startHour = o.endHour \/ last'.task.endHour = o.startHour
        /\ \A o \in Others(tasks, last'.task.id) : ~Intersects(last'.task, o))
       => last'.ok]_vars

C4_Witness ==
    /\ Upserted /\ last.ok
    /\ \E o \in Others(tasks, last.task.id) :
          /\ o.dateISO = last.task.dateISO
          /\ last.task.startHour = o.endHour \/ last.task.endHour = o.startHour

\* C5: a candidate whose startHour or endHour lies outside 07:00-20:00 is
\* rejected.
C5_OutOfWindowRejected ==
    (Upserted /\ (OutOfWindow(last.task.startHour) \/ OutOfWindow(last.task.endHour)))
        => ~last.ok

\* C6: a candidate whose startHour or endHour is not a multiple of half an
\* hour is rejected.
C6_OffGridRejected ==
    (Upserted /\ ~(OnHalfHour(last.task.startHour) /\ OnHalfHour(last.task.endHour)))
        => ~last.ok

\* C7: a candidate whose startHour is not strictly less than its endHour is
\* never accepted.
C7_EmptyIntervalRejected ==
    (Upserted /\ last.task.startHour >= last.task.endHour) => ~last.ok

\* C8: a candidate that breaks the category-conditioned field rules is
\* rejected, so every stored task satisfies them.
C8_FieldRulesEnforced ==
    /\ (Upserted /\ ~FieldRules(last.task)) => ~last.ok
    /\ \A i \in 1..Len(tasks) : FieldRules(tasks[i])

\* C9: the overlap check leaves out a stored task only by id: a candidate
\* with a stored id that intersects its own stored interval (and no task of
\* another id) is accepted; a candidate with an id that is not stored and the
\* date and interval of a stored task is rejected as a conflict.
C9_ExcludedById ==
    [][last'.op = "upsert" =>
        /\ (/\ InRange(last'.task)
            /\ last'.old # None
            /\ Intersects(last'.task, last'.old[1])
            /\ \A o \in Others(tasks, last'.task.id) : ~Intersects(last'.task, o))
           => last'.ok
        /\ (/\ last'.old = None
            /\ \E o \in RangeOf(tasks) :
                  /\ o.dateISO = last'.task.dateISO
                  /\ o.startHour = last'.task.startHour
                  /\ o.endHour = last'.task.endHour)
           => (~last'.ok /\ last'.error = "overlap")]_vars

C9_Witness ==
    /\ Upserted /\ last.ok
    /\ last.old # None
    /\ last.old[1] # last.task
    /\ Intersects(last.task, last.old[1])
    /\ Others(tasks, last.task.id) # {}

\* C10: after an accepted upsertTask the store holds exactly one task with
\* the candidate's id, equal to the candidate; the size grew by one if the
\* id was new and is unchanged otherwise; the tasks of other ids are unchanged.
C10_UpsertEffect ==
    [][(last'.op = "upsert" /\ last'.ok) =>
        LET c == last'.task
        IN  /\ Cardinality({i \in 1..Len(tasks') : tasks'[i].id = c.id}) = 1
            /\ \E i \in 1..Len(tasks') : tasks'[i] = c
            /\ Len(tasks') = IF c.id \in IdsOf(tasks) THEN Len(tasks) ELSE Len(tasks) + 1
            /\ Others(tasks', c.id) = Others(tasks, c.id)]_vars

C10_Witness ==
    /\ Upserted /\ last.ok
    /\ last.old # None
    /\ last.old[1] # last.task
    /\ Len(tasks) >= 2

\* C11: deleteTask(id) removes the stored task of that id and changes no
\* other task; when no stored task has the id the store is unchanged, so a
\* second delete of the same id changes nothing.
C11_DeleteEffect ==
    [][last'.op = "delete" =>
        LET id == last'.id
        IN  /\ id \notin IdsOf(tasks')
            /\ Others(tasks', id) = Others(tasks, id)
            /\ Len(tasks') =
                  Len(tasks) - Cardinality({i \in 1..Len(tasks) : tasks[i].id = id})
            /\ id \notin IdsOf(tasks) => tasks' = tasks
            /\ (last.op = "delete" /\ last.id = id) => tasks' = tasks]_vars

C11_Witness ==
    /\ last.op = "delete"
    /\ last.old # None
    /\ Len(tasks) >= 1

\* C12: two upserts issued one after the other whose candidates have
\* different ids and intersecting intervals on one date are never both
\* accepted.
C12_AtomicUpsert ==
    [][(/\ last.op = "upsert" /\ last.ok
        /\ last'.op = "upsert" /\ last'.ok
        /\ last.task.id # last'.task.id)
       => ~Intersects(last.task, last'.task)]_vars

\* a task without its id
NoId(t) == [t EXCEPT !.id = 0]

\* the number of tasks of the list that equal x when ids are ignored
CountOf(list, x) == Cardinality({i \in 1..Len(list) : NoId(list[i]) = x})

\* the two lists are the same multiset when ids are ignored
SameUpToId(a, b) ==
    \A x \in {NoId(t) : t \in RangeOf(a) \cup RangeOf(b)} :
        CountOf(a, x) = CountOf(b, x)

\* C13: importing the text that toCSV produces for the stored collection
\* yields a collection equal to it as a multiset when ids are ignored.
C13_RoundTrip ==
    (last.op = "import" /\ last.text = toCSV(tasks))
        => SameUpToId(last.imported, tasks)

\* the import of a file named .csv
Imported == last.op = "import" /\ last.csvName
HeaderOk(lines) == lines # <<>> /\ lines[1] = expectedHeader

\* the number of fields of a line: one more than the ';' that are preceded
\* by an even number of '"'
FieldCount(line) ==
    1 + Cardinality({i \in 1..Len(line) :
            /\ line[i] = SEMI
            /\ Cardinality({j \in 1..(i - 1) : line[j] = QUOTE}) % 2 = 0})

Two(n) == <<DigitChars[(n \div 10) + 1], DigitChars[(n % 10) + 1]>>

\* the time of day m (in minutes) written HH:MM
HHMM(m) == Two(m \div 60) \o <<":">> \o Two(m % 60)

\* text is hh:mm written H:MM or HH:MM
IsTime(text, hh, mm) ==
    \/ text = IntStr(hh) \o <<":">> \o Two(mm)
    \/ text = Two(hh) \o <<":">> \o Two(mm)
TimeOk(text) == \E hh \in 0..23, mm \in {0, 30} : IsTime(text, hh, mm)
TimeVal(text) ==
    LET hm == CHOOSE q \in (0..23) \X {0, 30} : IsTime(text, q[1], q[2])
    IN  hm[1] * 60 + hm[2]

DateOk(text) ==
    /\ Len(text) = 10
    /\ \A i \in 1..10 : IF i \in {5, 8} THEN text[i] = "-" ELSE IsDigit(text[i])

\* the import rules in the order of the specification
RuleOrder == <<"columns", "date", "start", "end", "order", "category", "billed">>

\* the rules that a data line violates
Violations(line) ==
    LET f == parseCSVLine(line)
    IN  IF FieldCount(line) # 11 THEN {"columns"}
        ELSE {r \in RangeOf(RuleOrder) :
                \/ r = "date" /\ ~DateOk(f[1])
                \/ r = "start" /\ ~TimeOk(f[2])
                \/ r = "end" /\ ~TimeOk(f[3])
                \/ r = "order" /\ TimeOk(f[2]) /\ TimeOk(f[3])
                               /\ TimeVal(f[2]) >= TimeVal(f[3])
                \/ r = "category" /\ f[4] \notin {FACTURABLE_Str, NON_FACTURABLE_Str}
                \/ r = "billed" /\ f[4] = FACTURABLE_Str /\ f[11] # <<>>
                                /\ toLowerCase(f[11]) \notin {oui, non}}

\* the first rule of RuleOrder among a non-empty set of rules
FirstRule(rules) ==
    RuleOrder[CHOOSE i \in 1..Len(RuleOrder) :
                /\ RuleOrder[i] \in rules
                /\ \A j \in 1..(i - 1) : RuleOrder[j] \notin rules]

\* the positions of the data lines that violate a rule
Failing(lines) == {k \in 2..Len(lines) : Violations(lines[k]) # {}}

\* C14: with a correct header, if a data line violates a rule then onImport
\* is not called and there is exactly one error per failing line, naming its
\* line; onImport is called only when no data line violates a rule, and then
\* with one task per data line.
C14_AllOrNothing ==
    (Imported /\ HeaderOk(LinesOf(last.text))) =>
        LET lines == LinesOf(last.text)
        IN  /\ Failing(lines) # {} =>
                /\ last.outcome # "ok" /\ last.imported = <<>>
                /\ Len(last.errors) = Cardinality(Failing(lines))
                /\ {last.errors[i].line : i \in 1..Len(last.errors)} = Failing(lines)
            /\ last.outcome = "ok" =>
                /\ Failing(lines) = {}
                /\ Len(last.imported) = Len(lines) - 1

C14_Witness ==
    /\ Imported /\ HeaderOk(LinesOf(last.text))
    /\ Len(LinesOf(last.text)) = 3
    /\ Cardinality(Failing(LinesOf(last.text))) = 1
    /\ Len(last.errors) = 1 /\ last.errors[1].line = 3

\* C15: when the first non-blank line, trimmed, is not the expected header,
\* the import reports the header error alone: no line error is collected and
\* onImport is not called.
C15_HeaderAbort ==
    (Imported /\ LinesOf(last.text) # <<>> /\ ~HeaderOk(LinesOf(last.text))) =>
        /\ last.outcome = "header"
        /\ last.errors = <<>>
        /\ last.imported = <<>>

C15_Witness ==
    /\ Imported /\ last.outcome = "header"
    /\ Failing(LinesOf(last.text)) # {}

\* C16: a data line that violates rules produces exactly one error, that of
\* the first violated rule in the order field count, date, start time, end
\* time, start < end, category, billed; a line that violates none produces
\* no error.
C16_FirstRule ==
    (Imported /\ HeaderOk(LinesOf(last.text))) =>
        LET lines == LinesOf(last.text)
            errorsOf(k) == {i \in 1..Len(last.errors) : last.errors[i].line = k}
        IN  \A k \in 2..Len(lines) :
                IF Violations(lines[k]) = {}
                THEN errorsOf(k) = {}
                ELSE /\ Cardinality(errorsOf(k)) = 1
                     /\ \A i \in errorsOf(k) :
                            last.errors[i].rule = FirstRule(Violations(lines[k]))

C16_Witness ==
    /\ Imported /\ HeaderOk(LinesOf(last.text))
    /\ \E k \in 2..Len(LinesOf(last.text)) :
          /\ {"date", "end", "category"} \subseteq Violations(LinesOf(last.text)[k])
          /\ \E i \in 1..Len(last.errors) :
                last.errors[i].line = k /\ last.errors[i].rule = "date"

\* C17: a data line is a field-count error exactly when its number of
\* fields, a ';' between double quotes not separating, is not 11.
C17_FieldCount ==
    (Imported /\ HeaderOk(LinesOf(last.text))) =>
        LET lines == LinesOf(last.text)
        IN  \A k \in 2..Len(lines) :
                (FieldCount(lines[k]) # 11) <=>
                    (\E i \in 1..Len(last.errors) :
                        last.errors[i].line = k /\ last.errors[i].rule = "columns")

C17_Witness ==
    /\ Imported /\ last.outcome = "ok"
    /\ Len(last.imported) = 1
    /\ last.imported[1].description = Some(<<"a", ";", "b">>)
    /\ Cardinality({i \in 1..Len(last.text) : last.text[i] = SEMI}) = 21

\* C18: a file with a billable data line whose client is empty, or a
\* non-billable data line whose type is empty, is rejected.
C18_RequiredFields ==
    (Imported /\ HeaderOk(LinesOf(last.text))) =>
        LET lines == LinesOf(last.text)
            lacks(k) ==
                LET f == parseCSVLine(lines[k])
                IN  /\ Len(f) = 11
                    /\ \/ f[4] = FACTURABLE_Str /\ f[5] = <<>>
                       \/ f[4] = NON_FACTURABLE_Str /\ f[8] = <<>>
        IN  (\E k \in 2..Len(lines) : lacks(k)) => last.outcome = "line errors"

\* C19: a file with the header and no data line is rejected with the
\* 'no task' message and onImport is not called.
C19_NothingToImport ==
    (Imported /\ LinesOf(last.text) = <<expectedHeader>>) =>
        (last.outcome = "no task" /\ last.imported = <<>>)

C19_Witness ==
    /\ Imported /\ last.outcome = "no task"
    /\ Len(last.text) > Len(expectedHeader)

IsPrefix(a, b) == Len(a) <= Len(b) /\ SubSeq(b, 1, Len(a)) = a

\* C20: the exported row of every stored task starts with its date, its
\* start and its end written HH:MM, and the time fields that toCSV writes
\* are read back by parseTimeToHour as the same times.
C20_TimesAsHHMM ==
    last.op = "export" =>
        \A i \in 1..Len(tasks) :
            LET t == tasks[i]
                start == HHMM(t.startHour)
                end == HHMM(t.endHour)
                rows == SplitLines(last.csv)
            IN  /\ \E k \in 2..Len(rows) :
                      IsPrefix(Join(<<t.dateISO, start, end>>, <<SEMI>>) \o <<SEMI>>,
                               rows[k])
                /\ parseTimeToHour(toCSVFields(t)[2]) =
                      [ok |-> TRUE, hour |-> t.startHour]
                /\ parseTimeToHour(toCSVFields(t)[3]) =
                      [ok |-> TRUE, hour |-> t.endHour]

\* a task within 07:00-20:00, on slot boundaries, of positive duration
ValidTimes(t) ==
    /\ InRange(t) /\ t.startHour < t.endHour
    /\ OnHalfHour(t.startHour) /\ OnHalfHour(t.endHour)

DurationOf(t) == t.endHour - t.startHour

\* the integer nearest to n / d for d > 0, the upper one when two are as near
Nearest(n, d) ==
    CHOOSE r \in -30..30 : (2 * r - 1) * d <= 2 * n /\ 2 * n < (2 * r + 1) * d

\* the step is the release of a drag that submits a candidate
DragSubmits == gesture.kind = "drag" /\ last'.op = "upsert"
\* the step is the release of a resize, which submits a candidate
ResizeSubmits == gesture.kind = "resize" /\ last'.op = "upsert"

\* C22: the candidate of a drag of a valid task has the duration of the
\* original, a slot-aligned start, and a start in [07:00, 20:00 - duration].
C22_DragKeepsDuration ==
    [][(DragSubmits /\ ValidTimes(gesture.t)) =>
        LET c == last'.task
        IN  /\ DurationOf(c) = DurationOf(gesture.t)
            /\ OnHalfHour(c.startHour)
            /\ Hours(START_HOUR) <= c.startHour
            /\ c.startHour <= Hours(END_HOUR) - DurationOf(gesture.t)]_vars

C22_Witness ==
    /\ last.op = "upsert" /\ last.by = "drag" /\ last.old # None
    /\ last.task.endHour = Hours(END_HOUR)
    /\ last.task.startHour - last.old[1].startHour \in {HalfHour, 3 * HalfHour}

\* C23: the date of the candidate of a drag is the day of index original
\* index + nearest integer to dx / column width, clamped to 0..5.
C23_DragDay ==
    [][DragSubmits =>
        /\ last'.task.dateISO \in 0..LastDayIdx
        /\ last'.task.dateISO =
              Max(0, Min(LastDayIdx,
                         gesture.t.dateISO + Nearest(gesture.dx, colWidth)))]_vars

C23_Witness ==
    /\ last.op = "upsert" /\ last.by = "drag" /\ last.old # None
    /\ last.old[1].dateISO = 2 /\ last.task.dateISO = 0

\* C24: a gesture on a task body starts unmoved, becomes moved exactly when
\* a displacement exceeds 3 pixels in an axis, and the release of an unmoved
\* gesture calls no upsert, leaves the store unchanged and opens the edit
\* form on the task.
C24_ClickThreshold ==
    [][/\ (gesture.kind = "none" /\ gesture'.kind = "drag") => ~gesture'.moved
       /\ (gesture.kind = "drag" /\ gesture'.kind = "drag") =>
             (gesture'.moved <=>
                 (gesture.moved \/ Abs(gesture'.dx) > 3 \/ Abs(gesture'.dy) > 3))
       /\ (gesture.kind = "drag" /\ gesture'.kind = "none" /\ ~gesture.moved) =>
             /\ last'.op = "click"
             /\ tasks' = tasks
             /\ modal' = [open |-> TRUE, mode |-> "edit",
                          existingTask |-> Some(gesture.t)]]_vars

C24_Witness ==
    /\ last.op = "click"
    /\ Abs(last.dx) = 3 /\ Abs(last.dy) = 3
    /\ modal.open /\ modal.existingTask = Some(tasks[1])

\* the pixels of a number of minutes on the grid
PixelsOf(minutes) == (minutes * HOUR_H) \div 60

\* the release of a drag of 47 minutes down, with two slots of room below
Drag47 ==
    /\ DragSubmits
    /\ gesture.dy = PixelsOf(47)
    /\ gesture.t.endHour + 2 * HalfHour <= Hours(END_HOUR)

\* C25 as stated: a drag of 47 minutes shifts the task by exactly 1 slot.
C25_SnapOneSlot ==
    [][Drag47 => last'.task.startHour = gesture.t.startHour + HalfHour]_vars

\* C25: a drag whose vertical delta corresponds to 47 minutes shifts the
\* task by exactly 2 slots (60 minutes), the multiple of 30 nearest to 47.
C25_SnapTwoSlots ==
    [][Drag47 => last'.task.startHour = gesture.t.startHour + 2 * HalfHour]_vars

C25_Witness ==
    /\ last.op = "upsert" /\ last.by = "drag" /\ last.old # None
    /\ last.old[1].startHour = Hours(9)
    /\ last.task.startHour = Hours(10)
    /\ last.task.dateISO = last.old[1].dateISO

\* C26: the candidate of a resize has the date of the original; from the
\* bottom handle it has its startHour, from the top handle its endHour.
C26_ResizeFrame ==
    [][ResizeSubmits =>
        /\ last'.task.dateISO = gesture.t.dateISO
        /\ gesture.pos = "bottom" => last'.task.startHour = gesture.t.startHour
        /\ gesture.pos = "top" => last'.task.endHour = gesture.t.endHour]_vars

C26_Witness ==
    /\ last.op = "upsert" /\ last.by = "top" /\ last.ok /\ last.old # None
    /\ last.task.startHour # last.old[1].startHour
    /\ last.task.endHour = last.old[1].endHour

NotAfter(a, b) ==
    \/ StrLess(a.dateISO, b.dateISO)
    \/ a.dateISO = b.dateISO /\ a.startHour <= b.startHour

\* the arrangements of the positions 1..n
Arrangements(n) ==
    {p \in [1..n -> 1..n] : \A i, j \in 1..n : i # j => p[i] # p[j]}

\* C21: the text of an export is the header followed by one row per stored
\* task, the rows in ascending order of date and then of startHour whatever
\* the order of the store, and the export leaves the store as it was.
C21_ExportSorted ==
    [][last'.op = "export" =>
        /\ tasks' = tasks
        /\ \E p \in Arrangements(Len(tasks)) :
              /\ \A i, j \in 1..Len(tasks) :
                    i < j => NotAfter(tasks[p[i]], tasks[p[j]])
              /\ last'.csv = Join(<<header>> \o
                                  [i \in 1..Len(tasks) |-> toCSVRow(tasks[p[i]])], <<NL>>)]_vars

C21_Witness ==
    /\ last.op = "export"
    /\ Len(tasks) = 2
    /\ StrLess(tasks[2].dateISO, tasks[1].dateISO)
    /\ tasks[1].startHour < tasks[2].startHour

\* the call is the upsert of a paste
Pasted == last.op = "upsert" /\ last.by = "paste"

\* C28: the candidate of a paste ends at 20:00 at the latest and upsert
\* never rejects it for being out of range.
C28_PasteFits ==
    Pasted => (last.task.endHour <= Hours(END_HOUR) /\ last.error # "range")

\* C29: an accepted paste appends one task whose id is new, whose date is
\* that of the hover target, whose duration and other fields are those of
\* the clipboard task, and changes no stored task; a rejected paste leaves
\* the store unchanged.
C29_PasteEffect ==
    [][(last'.op = "upsert" /\ last'.by = "paste") =>
        /\ copiedTask # None /\ hoverTarget # None
        /\ last'.ok =>
              LET c == tasks'[Len(tasks')]
                  src == copiedTask[1]
              IN  /\ Len(tasks') = Len(tasks) + 1
                  /\ SubSeq(tasks', 1, Len(tasks)) = tasks
                  /\ c = last'.task
                  /\ c.id \notin IdsOf(tasks)
                  /\ c.dateISO = hoverTarget[1].dateISO
                  /\ DurationOf(c) = DurationOf(src)
                  /\ c.category = src.category /\ c.client = src.client
                  /\ c.project = src.project /\ c.quote = src.quote
                  /\ c.type = src.type /\ c.description = src.description
                  /\ c.billed = src.billed
        /\ ~last'.ok => tasks' = tasks]_vars

C29_Witness ==
    /\ Pasted /\ last.ok
    /\ Len(tasks) >= 2
    /\ copiedTask # None
    /\ \E i \in 1..Len(tasks) : tasks[i] = copiedTask[1]
    /\ tasks[Len(tasks)] = last.task

\* C30: the clipboard changes only by a copy with a stored task under the
\* pointer, it then holds that task, and the store is unchanged.
C30_CopyEffect ==
    [][copiedTask' # copiedTask =>
        /\ hoveredTaskId # None
        /\ Find(tasks, hoveredTaskId[1]) # None
        /\ copiedTask' = Find(tasks, hoveredTaskId[1])
        /\ tasks' = tasks]_vars

C30_Witness ==
    /\ copiedTask # None
    /\ hoveredTaskId # None
    /\ copiedTask = Find(tasks, hoveredTaskId[1])
    /\ Len(tasks) >= 2
    /\ copiedTask[1] # tasks[1]

\* a target that the paste can use: a displayed day and a slot of the grid
IsHoverTarget(h) ==
    /\ h.dateISO \in 0..LastDayIdx
    /\ OnHalfHour(h.hour)
    /\ Hours(START_HOUR) <= h.hour /\ h.hour <= Hours(END_HOUR) - HalfHour

\* C31: the hover target is empty or a displayed day with a time on a half
\* hour within 07:00-19:30, whether the day column or a task card has set
\* it, and whether or not a gesture is active.
C31_HoverTarget ==
    /\ hoverTarget # None => IsHoverTarget(hoverTarget[1])
    /\ last.op = "hover" => IsHoverTarget(last.card)

C31_Witness ==
    /\ last.op = "hover"
    /\ gesture.kind = "drag"
    /\ hoverTarget # None
    /\ hoverTarget[1].hour = Hours(END_HOUR) - HalfHour
    /\ last.card.hour = Hours(END_HOUR) - Hours(1)

\* C32: every rejected upsert, from the form, a drag, a resize or a paste,
\* shows an error message and changes no stored state.
C32_RejectionShown ==
    [][(last'.op = "upsert" /\ ~last'.ok) => (last'.shown /\ tasks' = tasks)]_vars

\* C33: the pointer-up that ends a drag or a resize detaches the pair of
\* listeners of the gesture, once, on every exit path, also when the
\* callback of the release throws.
C33_ListenersDetached ==
    [][(gesture.kind \in {"drag", "resize"} /\ gesture'.kind = "none") =>
        listeners' = listeners - 1]_vars

\* C35: at most one pair of listeners is attached, exactly one while a
\* gesture is active (a resize or a drag, never both) and none when every
\* pointer-down has had its pointer-up.
C35_OneGesture ==
    /\ listeners <= 1
    /\ gesture.kind \in {"drag", "resize"} => listeners = 1
    /\ gesture.kind = "none" => listeners = 0

\* the stored item does not hold an array of JSON: it is missing, is no
\* JSON text, or is the text of another value
NoArrayStored(raw) ==
    \/ raw = None
    \/ ~JSONParse(raw[1]).ok
    \/ JSONParse(raw[1]).v.t # "arr"

\* C34: when the stored item is missing, is not valid JSON or is JSON that
\* is not an array, the task collection after the load is empty.
C34_LoadDegrades ==
    [][last'.op = "load" => (NoArrayStored(storage) => tasks' = <<>>)]_vars

C34_Witness ==
    /\ last.op = "load"
    /\ last.raw = Some(<<"{", "}">>)
    /\ tasks = <<>>

\* the fields of a task that no gesture changes
Details(t) ==
    <<t.category, t.client, t.project, t.quote, t.type, t.description, t.billed>>

\* C36: an accepted drag or resize of a stored task keeps the id of the
\* task, its place and the number of stored tasks, changes no field other
\* than date, startHour and endHour (a resize not the date), and changes no
\* other task.
C36_GestureFrame ==
    [][((DragSubmits \/ ResizeSubmits) /\ last'.ok
            /\ Find(tasks, gesture.t.id) # None) =>
        LET c == last'.task
            i == CHOOSE k \in 1..Len(tasks) : tasks[k].id = gesture.t.id
        IN  /\ c.id = gesture.t.id
            /\ Len(tasks') = Len(tasks)
            /\ tasks'[i] = c
            /\ \A k \in 1..Len(tasks) : k # i => tasks'[k] = tasks[k]
            /\ Details(tasks'[i]) = Details(tasks[i])
            /\ ResizeSubmits => tasks'[i].dateISO = tasks[i].dateISO]_vars

C36_Witness ==
    /\ last.op = "upsert" /\ last.by = "drag" /\ last.ok /\ last.old # None
    /\ Len(tasks) = 2
    /\ tasks[1] = last.task
    /\ tasks[2] = Neighbour
    /\ last.task.dateISO = Neighbour.dateISO
    /\ last.old[1].dateISO # last.task.dateISO
    /\ Details(last.old[1]) = Details(last.task)

C37_StoreStaysValid ==
    /\ \A i \in 1..Len(tasks) : ValidTimes(tasks[i])
    /\ \A i \in 1..Len(tasks) : \A j \in (i + 1)..Len(tasks) :
          tasks[i].dateISO # tasks[j].dateISO
             \/ tasks[i].endHour <= tasks[j].startHour
             \/ tasks[j].endHour <= tasks[i].startHour

\* C38: eleven fields without a newline, escaped with escapeCSV and joined
\* with ';', are split by parseCSVLine into the same eleven texts.
C38_FieldsRoundTrip ==
    last.op = "split" => last.result = last.fields

C38_Witness ==
    /\ last.op = "split"
    /\ last.fields[1] = <<QUOTE>>
    /\ last.fields[2] = <<SEMI, QUOTE>>
    /\ last.fields[11] = <<>>
    /\ Len(last.result) = 11
    /\ last.result[1] = <<QUOTE>>

\* C40: no call of the store and no paste changes the clipboard; a paste
\* needs a clipboard task and a hover target; a paste right after an
\* accepted paste is rejected as a conflict and the store keeps one copy.
C40_ClipboardKept ==
    [][/\ last'.op # "none" => copiedTask' = copiedTask
       /\ (last'.op = "upsert" /\ last'.by = "paste") =>
             copiedTask # None /\ hoverTarget # None
       /\ (Pasted /\ last.ok /\ last'.op = "upsert" /\ last'.by = "paste") =>
             /\ ~last'.ok /\ last'.error = "overlap"
             /\ NoId(last'.task) = NoId(last.task)
             /\ tasks' = tasks
             /\ Cardinality({i \in 1..Len(tasks') :
                               NoId(tasks'[i]) = NoId(last.task)}) = 1]_vars

C40_Witness ==
    /\ Pasted /\ ~last.ok /\ last.error = "overlap"
    /\ copiedTask # None
    /\ copiedTask[1].category = "NON_FACTURABLE" /\ copiedTask[1].dateISO = 1
    /\ last.task.dateISO = 0
    /\ \E i \in 1..Len(tasks) : NoId(tasks[i]) = NoId(last.task)
    /\ \E i \in 1..Len(tasks) : tasks[i] = copiedTask[1]

====
